---- MODULE Spec2Model ----
(***************************************************************************)
(* Real-time chess: the tick scheduler of Game and the four modules it     *)
(* drives (units, messengers, combat, fog of war).                         *)
(*                                                                         *)
(* Python objects are modelled by reference: `unit` is the heap of Unit    *)
(* objects (an object outlives its removal from UnitModule.units, and the  *)
(* engagement tuples and player_kings keep pointing at it), `units` is the *)
(* key set of the UnitModule.units dict.  Dicts keep insertion order, so   *)
(* the units are iterated in creation order (UnitOrder) and the messengers *)
(* are a sequence.  random.random() is a nondeterministic draw.            *)
(***************************************************************************)
EXTENDS Integers, Sequences, FiniteSets, TLC

VARIABLES
    current_phase,      \* Game.current_phase
    game_running,       \* Game.game_running
    tick_count,         \* Game.tick_count
    pc,                 \* position of the scheduler inside game_loop_tick
    unit,               \* heap of Unit objects: hp, is_alive, position, current_orders
    units,              \* keys of UnitModule.units
    player_kings,       \* UnitModule.player_kings: player id -> King object (its id)
    active_messengers,  \* MessengerModule.active_messengers, in insertion order
    next_messenger_id,  \* MessengerModule.next_messenger_id
    active_engagements, \* CombatModule.active_engagements: list of (unit_a, unit_b)
    player_maps,        \* FogOfWarModule.player_maps: player id -> set of visible tiles
    winner,             \* the winner announced by check_game_end ("none" before)
    events,             \* what the last step did: hits, deliveries, interceptions
    inputs,             \* calls made from outside the tick so far
    pass_revealed       \* tiles newly revealed by unit vision in the current tick

vars == <<current_phase, game_running, tick_count, pc, unit, units, player_kings,
          active_messengers, next_messenger_id, active_engagements, player_maps,
          winner, events, inputs, pass_revealed>>

----------------------------------------------------------------------------
(* Bounds of the model *)

MaxTick == 4            \* ticks explored (Spec)
MaxCombatTick == 2      \* ticks explored (SpecCombat)
MaxInputs == 2          \* dispatch and receive_damage calls from outside (Spec)
MaxSetup == 4           \* initiate_combat and receive_damage calls before the battle (SpecCombat)
MaxOrders == 1          \* orders queued on one unit by the planning phase
MaxFogCalls == 3        \* calls made on the fog-of-war module (SpecFog)
MaxEngage == 3          \* initiate_combat and receive_damage calls (SpecEngage)
MaxEngageTick == 2      \* ticks explored (SpecEngage)
MaxCreate == 3          \* create_unit calls (SpecCreate)
MaxRiskCalls == 2       \* get_messenger_risk calls (SpecRisk)
MaxReportTick == 101     \* ticks explored (SpecReport)
MaxReportInputs == 2    \* initiate_combat and receive_damage calls (SpecReport)
MaxFailTick == 4        \* ticks explored (SpecFail)
MaxFailInputs == 2      \* dispatch, initiate_combat and receive_damage calls (SpecFail)
MaxQueueTick == 4       \* ticks explored (SpecQueue)
MaxQueueInputs == 3     \* orders put on a queue (SpecQueue)
MaxLifeTick == 8        \* ticks explored (SpecLife)
MaxLifeInputs == 2      \* dispatch and receive_damage calls (SpecLife)
MaxStoppedTick == 2     \* ticks explored (SpecStopped)
MaxStoppedInputs == 3   \* dispatch, receive_damage and ignored tick calls (SpecStopped)

(* Program constants *)

GAME_TICK_RATE == 20
BoardWidth == 8
BoardHeight == 8
MESSENGER_HEALTH == 10
REPORT_SECONDS == 5

Players == <<"player1", "player2">>
PlayerSet == {"player1", "player2"}

(* A visibility grid is the set of its True cells; the cell [y][x] of the *)
(* row-major matrix is numbered y * BoardWidth + x.                       *)
Tiles == 0 .. BoardWidth * BoardHeight - 1
Cell(x, y) == y * BoardWidth + x
CellX(t) == t % BoardWidth
CellY(t) == t \div BoardWidth

Max(a, b) == IF a > b THEN a ELSE b
Min(a, b) == IF a < b THEN a ELSE b

(* Only the stats the simulation reads: speed and abilities are never used. *)
UNIT_ARCHETYPES ==
    [Pawn   |-> [hp |-> 10, attack |-> 2, defense |-> 1, sight_range |-> 2],
     Rook   |-> [hp |-> 30, attack |-> 5, defense |-> 4, sight_range |-> 3],
     Knight |-> [hp |-> 15, attack |-> 3, defense |-> 2, sight_range |-> 2],
     Bishop |-> [hp |-> 12, attack |-> 2, defense |-> 1, sight_range |-> 4],
     Queen  |-> [hp |-> 40, attack |-> 7, defense |-> 5, sight_range |-> 5],
     King   |-> [hp |-> 50, attack |-> 1, defense |-> 3, sight_range |-> 6]]

(* The units initialize_game creates, in creation order. *)
UnitOrder == <<"P1_King", "P1_Pawn1", "P1_Rook1", "P2_King", "P2_Pawn1", "P2_Rook1">>

UnitIds == {UnitOrder[i] : i \in 1 .. Len(UnitOrder)}

UnitDef ==
    [P1_King  |-> [player_id |-> "player1", unit_type |-> "King", position |-> <<0, 0>>],
     P1_Pawn1 |-> [player_id |-> "player1", unit_type |-> "Pawn", position |-> <<0, 1>>],
     P1_Rook1 |-> [player_id |-> "player1", unit_type |-> "Rook", position |-> <<0, 7>>],
     P2_King  |-> [player_id |-> "player2", unit_type |-> "King", position |-> <<7, 7>>],
     P2_Pawn1 |-> [player_id |-> "player2", unit_type |-> "Pawn", position |-> <<7, 6>>],
     P2_Rook1 |-> [player_id |-> "player2", unit_type |-> "Rook", position |-> <<7, 0>>]]

PlayerOf(u) == UnitDef[u].player_id
IsKing(u) == UnitDef[u].unit_type = "King"
Stat(u) == UNIT_ARCHETYPES[UnitDef[u].unit_type]
MaxHp(u) == Stat(u).hp

(* Unit.__init__ *)
NewUnit(u) ==
    [hp |-> Stat(u).hp, is_alive |-> TRUE, position |-> UnitDef[u].position,
     current_orders |-> <<>>]

(* UnitModule.create_unit on st = [heap, store, kings]: an unknown type is *)
(* reported on the console and None is returned, before any constructor   *)
(* runs (the ValueError of Unit.__init__ is never reached); a known one   *)
(* is constructed and registered, replacing an entry with the same id.    *)
(* outcome is how the call ended.                                         *)
create_unit(st, unit_id, player_id, unit_type, position) ==
    IF unit_type \notin DOMAIN UNIT_ARCHETYPES
    THEN [heap |-> st.heap, store |-> st.store, kings |-> st.kings,
          outcome |-> "returned_None"]
    ELSE LET uobj == [hp |-> UNIT_ARCHETYPES[unit_type].hp, is_alive |-> TRUE,
                      position |-> position, current_orders |-> <<>>]
         IN  [heap |-> [u \in DOMAIN st.heap \cup {unit_id} |->
                          IF u = unit_id THEN uobj ELSE st.heap[u]],
              store |-> st.store \cup {unit_id},
              kings |-> IF unit_type = "King"
                        THEN [p \in DOMAIN st.kings \cup {player_id} |->
                                IF p = player_id THEN unit_id ELSE st.kings[p]]
                        ELSE st.kings,
              outcome |-> "returned_unit"]

----------------------------------------------------------------------------
(* Battlefield and fog of war *)

is_within_bounds(pos) ==
    /\ 0 <= pos[1] /\ pos[1] < BoardWidth
    /\ 0 <= pos[2] /\ pos[2] < BoardHeight

(* Two loops whose ranges stop one tile short: range(.., c + radius) *)
RevealScan_ShortRange(center, radius) ==
    {t \in Tiles :
        LET x == CellX(t)
            y == CellY(t)
        IN  /\ Max(0, center[1] - radius) <= x /\ x < Min(BoardWidth, center[1] + radius)
            /\ Max(0, center[2] - radius) <= y /\ y < Min(BoardHeight, center[2] + radius)
            /\ (x - center[1]) * (x - center[1]) + (y - center[2]) * (y - center[2])
                  <= radius * radius}

(* The tiles the two loops of reveal_area visit and find within the radius. *)
RevealScan(center, radius) ==
    {t \in Tiles :
        LET x == CellX(t)
            y == CellY(t)
        IN  /\ Max(0, center[1] - radius) <= x /\ x < Min(BoardWidth, center[1] + radius + 1)
            /\ Max(0, center[2] - radius) <= y /\ y < Min(BoardHeight, center[2] + radius + 1)
            /\ (x - center[1]) * (x - center[1]) + (y - center[2]) * (y - center[2])
                  <= radius * radius}

(* RevealScan, tabulated once for the centers on and around the board   *)
(* (two tiles beyond each edge) and the sight ranges of the archetypes: *)
(* entry n is for the n-th <<center, radius>> in row-major order, and   *)
(* the table is built entry by entry so that it is an explicit function. *)
TableKey(n) ==
    <<<<(n % (BoardWidth + 4)) - 2, ((n \div (BoardWidth + 4)) % (BoardHeight + 4)) - 2>>,
      n \div ((BoardWidth + 4) * (BoardHeight + 4))>>

RECURSIVE BuildRevealTable(_, _)
BuildRevealTable(lo, hi) ==
    IF lo = hi
    THEN LET k == TableKey(lo) IN k :> RevealScan(k[1], k[2])
    ELSE LET mid == (lo + hi) \div 2
         IN  BuildRevealTable(lo, mid) @@ BuildRevealTable(mid + 1, hi)

RevealTable == BuildRevealTable(0, (BoardWidth + 4) * (BoardHeight + 4) * 7 - 1)

RevealTiles(center, radius) ==
    IF /\ -2 <= center[1] /\ center[1] <= BoardWidth + 1
       /\ -2 <= center[2] /\ center[2] <= BoardHeight + 1
       /\ 0 <= radius /\ radius <= 6
    THEN RevealTable[<<center, radius>>]
    ELSE RevealScan(center, radius)

(* A reveal_area that flips every tile of the area instead of setting it *)
reveal_area_Flip(maps, player_id, center, radius) ==
    IF player_id \notin DOMAIN maps THEN maps
    ELSE [maps EXCEPT ![player_id] =
             (@ \ RevealTiles(center, radius)) \cup (RevealTiles(center, radius) \ @)]

(* FogOfWarModule.reveal_area *)
reveal_area(maps, player_id, center, radius) ==
    IF player_id \notin DOMAIN maps THEN maps
    ELSE [maps EXCEPT ![player_id] = @ \cup RevealTiles(center, radius)]

(* A merge without the test of the board bounds *)
ReportTiles_Unclamped(updates) ==
    {Cell(updates[i][1], updates[i][2]) : i \in {j \in 1 .. Len(updates) : updates[j][3]}}

(* The tiles a report's visibility_update list turns visible. *)
ReportTiles(updates) ==
    {Cell(updates[i][1], updates[i][2]) : i \in {j \in 1 .. Len(updates) :
        /\ is_within_bounds(<<updates[j][1], updates[j][2]>>)
        /\ updates[j][3]}}

(* The in-bounds tiles a report lists as not visible *)
HiddenTiles(updates) ==
    {Cell(updates[i][1], updates[i][2]) : i \in {j \in 1 .. Len(updates) :
        /\ is_within_bounds(<<updates[j][1], updates[j][2]>>)
        /\ ~updates[j][3]}}

(* A merge that writes every listed entry, visible or not *)
update_player_map_from_report_Overwrite(maps, player_id, report_data) ==
    IF player_id \notin DOMAIN maps THEN maps
    ELSE [maps EXCEPT ![player_id] =
             (@ \ HiddenTiles(report_data.visibility_update))
                \cup ReportTiles(report_data.visibility_update)]

(* FogOfWarModule.update_player_map_from_report: an entry only ever sets *)
(* an in-bounds hidden tile to visible                                   *)
update_player_map_from_report(maps, player_id, report_data) ==
    IF player_id \notin DOMAIN maps THEN maps
    ELSE [maps EXCEPT ![player_id] = @ \cup ReportTiles(report_data.visibility_update)]

(* The tiles update_player_map_from_unit_vision reveals for one unit object. *)
UnitVisionTiles(uobj, sight_range) ==
    IF ~uobj.is_alive \/ sight_range <= 0 THEN {}
    ELSE RevealTiles(uobj.position, sight_range)

----------------------------------------------------------------------------
(* Unit *)

(* A step of two tiles, the value of Messenger.speed *)
StepToward_TwoTiles(c, t) ==
    IF c < t THEN (IF c + 2 < t THEN c + 2 ELSE t)
    ELSE IF c > t THEN (IF c - 2 > t THEN c - 2 ELSE t) ELSE c

(* One coordinate after a step: one tile toward t, or where it is *)
StepToward(c, t) == IF c < t THEN c + 1 ELSE IF c > t THEN c - 1 ELSE c

(* An update that drops an order it cannot execute *)
UnitUpdate_DropsUnknown(uobj) ==
    IF ~uobj.is_alive \/ uobj.current_orders = <<>> THEN uobj
    ELSE LET first_order == Head(uobj.current_orders)
             target_pos == first_order.target_pos
         IN  IF first_order.type # "move_to" THEN [uobj EXCEPT !.current_orders = Tail(@)]
             ELSE IF target_pos # <<>> /\ uobj.position # target_pos
                  THEN LET new_pos == <<StepToward(uobj.position[1], target_pos[1]),
                                        StepToward(uobj.position[2], target_pos[2])>>
                       IN  IF new_pos = target_pos
                           THEN [uobj EXCEPT !.position = new_pos,
                                             !.current_orders = Tail(@)]
                           ELSE [uobj EXCEPT !.position = new_pos]
                  ELSE [uobj EXCEPT !.current_orders = Tail(@)]

(* Unit.update: only a move_to order at the head of the queue is executed. *)
UnitUpdate(uobj) ==
    IF ~uobj.is_alive \/ uobj.current_orders = <<>> THEN uobj
    ELSE LET first_order == Head(uobj.current_orders)
             target_pos == first_order.target_pos
         IN  IF first_order.type # "move_to" THEN uobj
             ELSE IF target_pos # <<>> /\ uobj.position # target_pos
                  THEN LET new_pos == <<StepToward(uobj.position[1], target_pos[1]),
                                        StepToward(uobj.position[2], target_pos[2])>>
                       IN  IF new_pos = target_pos
                           THEN [uobj EXCEPT !.position = new_pos,
                                             !.current_orders = Tail(@)]
                           ELSE [uobj EXCEPT !.position = new_pos]
                  ELSE [uobj EXCEPT !.current_orders = Tail(@)]

(* A receive_damage that does not floor hp at 0 *)
ReceiveDamage_NoFloor(uobj, amount) ==
    [uobj EXCEPT !.hp = uobj.hp - amount, !.is_alive = uobj.hp - amount > 0]

(* Unit.receive_damage *)
ReceiveDamage(uobj, amount) ==
    IF uobj.hp - amount <= 0
    THEN [uobj EXCEPT !.hp = 0, !.is_alive = FALSE]
    ELSE [uobj EXCEPT !.hp = uobj.hp - amount]

(* UnitModule.get_all_active_units, in dict order *)
get_all_active_units(heap, store) ==
    SelectSeq(UnitOrder, LAMBDA u : u \in store /\ heap[u].is_alive)

(* UnitModule.get_units_by_player, in dict order *)
get_units_by_player(heap, store, player_id) ==
    SelectSeq(UnitOrder, LAMBDA u : u \in store /\ PlayerOf(u) = player_id /\ heap[u].is_alive)

(* A removal list that only holds the units found dead right after their *)
(* own update                                                            *)
UnitsToRemove_DiedInUpdate(heap, store) ==
    {u \in store : heap[u].is_alive /\ ~UnitUpdate(heap[u]).is_alive}

(* units_to_remove of update_units: the units found dead, and those dead *)
(* after their update                                                    *)
UnitsToRemove(heap, store) ==
    {u \in store : ~heap[u].is_alive \/ ~UnitUpdate(heap[u]).is_alive}

(* UnitModule.get_unit_by_id returns an object or None *)
UnitResolves(heap, store, id) == id \in store

(* UnitModule.get_king_unit returns the King of the player, or None *)
get_king_unit(kings, player_id) ==
    IF player_id \in DOMAIN kings THEN kings[player_id] ELSE "None"

(* A removal that looks the lookup up by the owner of the removed unit *)
KingsToDelete_ByOwner(heap, kings, removed) ==
    {k \in DOMAIN kings : kings[k] \in removed /\ ~heap[kings[k]].is_alive}

(* The keys update_units deletes from player_kings: it looks the unit id up *)
(* in a dict that is keyed by player id.                                    *)
KingsToDelete(heap, kings, removed) ==
    {k \in DOMAIN kings : k \in removed /\ ~heap[kings[k]].is_alive}

Restrict(f, S) == [x \in S |-> f[x]]

----------------------------------------------------------------------------
(* Messengers *)

(* One line of what a step printed: ev names the branch taken, msg the      *)
(* messenger's number, unit the unit acted on, by the acting unit, n an     *)
(* amount, unit_hp and by_hp the hit points of both before the call.        *)
Event(ev, msg, u, by, n, unit_hp, by_hp) ==
    [ev |-> ev, msg |-> msg, unit |-> u, by |-> by, n |-> n,
     unit_hp |-> unit_hp, by_hp |-> by_hp]

MsgEvent(ev, m) == Event(ev, m.id, m.target_entity_id, "", 0, 0, 0)

(* Messenger.__init__; the id string is prefix + "_" + number *)
NewMessenger(n, prefix, player_id, origin_pos, target_entity_id, payload_data, is_report) ==
    [id |-> n, prefix |-> prefix, player_id |-> player_id, origin_pos |-> origin_pos,
     target_entity_id |-> target_entity_id, payload_data |-> payload_data,
     is_report |-> is_report, current_pos |-> origin_pos, path |-> <<>>,
     health |-> MESSENGER_HEALTH, is_active |-> TRUE]

(* msg_id = f"{msg_id_prefix}_{self.next_messenger_id}": the parts of the *)
(* prefix, then the digits of the counter as the last part               *)
MsgId(prefix, n) == Append(prefix, n)

(* active_messengers[messenger.id] = messenger: a dict assignment, which *)
(* replaces the entry of an equal key where it stands and appends a new  *)
(* key at the end                                                        *)
DictStore(msgs, m) ==
    IF \E i \in 1 .. Len(msgs) : MsgId(msgs[i].prefix, msgs[i].id) = MsgId(m.prefix, m.id)
    THEN [i \in 1 .. Len(msgs) |->
             IF MsgId(msgs[i].prefix, msgs[i].id) = MsgId(m.prefix, m.id) THEN m ELSE msgs[i]]
    ELSE Append(msgs, m)

(* A dispatch that does not advance the counter *)
dispatch_messenger_NoIncrement(st, prefix, player_id, origin_pos, target_entity_id, payload_data, is_report) ==
    [st EXCEPT
        !.msgs = DictStore(@, NewMessenger(st.next_id, prefix, player_id, origin_pos,
                                           target_entity_id, payload_data, is_report))]

(* MessengerModule.dispatch_messenger on the state st a pass works on *)
dispatch_messenger(st, prefix, player_id, origin_pos, target_entity_id, payload_data, is_report) ==
    [st EXCEPT
        !.msgs = DictStore(@, NewMessenger(st.next_id, prefix, player_id, origin_pos,
                                           target_entity_id, payload_data, is_report)),
        !.next_id = @ + 1]

(* Messenger.calculate_path *)
calculate_path(m, target_pos) ==
    IF ~is_within_bounds(target_pos) THEN [m EXCEPT !.is_active = FALSE]
    ELSE IF m.origin_pos # target_pos
         THEN [m EXCEPT !.path = <<m.origin_pos, target_pos>>]
         ELSE [m EXCEPT !.path = <<m.origin_pos, target_pos>>, !.is_active = FALSE]

(* MessengerModule.get_messenger_risk is min(0.005 * sqrt(d2), 0.95) with d2 *)
(* the squared distance from the origin.  A draw of random.random() is      *)
(* sample / 1000; sample/1000 < risk iff sample < 950 and sample^2 < 25 d2. *)
SquaredDistance(a, b) == (a[1] - b[1]) * (a[1] - b[1]) + (a[2] - b[2]) * (a[2] - b[2])

SampleBelowRisk(sample, origin_pos, current_pos) ==
    /\ sample < 950
    /\ sample * sample < 25 * SquaredDistance(origin_pos, current_pos)

Samples == {0, 999}

(* The value get_messenger_risk returns, in ten-thousandths and rounded  *)
(* down: base_risk_per_tile is 0.005 and the cap 0.95                    *)
BASE_RISK_PER_TILE == 50
RISK_CAP == 9500

(* The largest r in lo .. hi with r * r <= n *)
RECURSIVE FloorSqrt(_, _, _)
FloorSqrt(n, lo, hi) ==
    IF lo = hi THEN lo
    ELSE LET mid == (lo + hi + 1) \div 2
         IN  IF mid * mid <= n THEN FloorSqrt(n, mid, hi) ELSE FloorSqrt(n, lo, mid - 1)

(* A risk that is returned without the cap *)
get_messenger_risk_Uncapped(origin_pos, current_pos) ==
    FloorSqrt(BASE_RISK_PER_TILE * BASE_RISK_PER_TILE * SquaredDistance(origin_pos, current_pos),
              0, 2 * RISK_CAP)

(* MessengerModule.get_messenger_risk: min(distance_traveled * 0.005, 0.95); *)
(* the battlefield argument is not read                                      *)
get_messenger_risk(origin_pos, current_pos) ==
    Min(FloorSqrt(BASE_RISK_PER_TILE * BASE_RISK_PER_TILE
                     * SquaredDistance(origin_pos, current_pos), 0, 2 * RISK_CAP),
        RISK_CAP)

(* The payload of a return messenger: it has a status, a unit_id and an  *)
(* order_hash, and none of the keys a delivery or a unit reads but unit_id *)
ReceiptPayload(target_id) ==
    [type |-> "", unit_id |-> target_id, target_pos |-> <<>>,
     visibility_update |-> <<>>]

(* A return messenger that starts where the order started *)
ReceiptOrigin_Sender(m, target_entity) == m.origin_pos

(* Where the return messenger of an order delivery starts *)
ReceiptOrigin(m, target_entity) == target_entity.position

(* A delivery that does not look for its target *)
DeliveryTargetOk_Always(heap, store, m) == TRUE

(* Whether deliver finds its target: in the store and alive *)
DeliveryTargetOk(heap, store, m) ==
    /\ UnitResolves(heap, store, m.target_entity_id)
    /\ heap[m.target_entity_id].is_alive

(* A delivery that treats every payload as an order *)
IsReportDelivery_Never(m) == FALSE

(* The branch deliver takes: the report branch if the flag is set *)
IsReportDelivery(m) == m.is_report

(* A delivery that puts the order at the head of the queue *)
deliver_AtHead(st, i, store, kings) ==
    LET m == st.msgs[i]
        t == m.target_entity_id
    IN  IF ~m.is_active \/ m.health <= 0 THEN st
        ELSE IF ~DeliveryTargetOk(st.heap, store, m)
             THEN [st EXCEPT !.events = Append(@, MsgEvent("delivery_failed", m))]
        ELSE IF IsReportDelivery(m)
             THEN [st EXCEPT
                     !.maps = update_player_map_from_report(@, m.player_id, m.payload_data),
                     !.events = Append(@, MsgEvent("delivered_report", m))]
        ELSE LET st1 == [st EXCEPT
                            !.heap[t].current_orders = <<m.payload_data>> \o @,
                            !.events = Append(@, MsgEvent("delivered_order", m))]
                 king == get_king_unit(kings, m.player_id)
             IN  IF king = "None" THEN [st1 EXCEPT !.raised = TRUE]
                 ELSE dispatch_messenger(st1, <<"return_msg", t>>, m.player_id,
                                         ReceiptOrigin(m, st.heap[t]), king,
                                         ReceiptPayload(t), TRUE)

(* Messenger.deliver for the messenger at index i of st.msgs.  Reading .id *)
(* of the None that get_king_unit returns raises: st.raised is set, and    *)
(* nothing after the call is executed.                                     *)
deliver(st, i, store, kings) ==
    LET m == st.msgs[i]
        t == m.target_entity_id
    IN  IF ~m.is_active \/ m.health <= 0 THEN st
        ELSE IF ~DeliveryTargetOk(st.heap, store, m)
             THEN [st EXCEPT !.events = Append(@, MsgEvent("delivery_failed", m))]
        ELSE IF IsReportDelivery(m)
             THEN [st EXCEPT
                     !.maps = update_player_map_from_report(@, m.player_id, m.payload_data),
                     !.events = Append(@, MsgEvent("delivered_report", m))]
        ELSE LET st1 == [st EXCEPT
                            !.heap[t].current_orders = Append(@, m.payload_data),
                            !.events = Append(@, MsgEvent("delivered_order", m))]
                 king == get_king_unit(kings, m.player_id)
             IN  IF king = "None" THEN [st1 EXCEPT !.raised = TRUE]
                 ELSE dispatch_messenger(st1, <<"return_msg", t>>, m.player_id,
                                         ReceiptOrigin(m, st.heap[t]), king,
                                         ReceiptPayload(t), TRUE)

(* An update that leaves is_active as it is *)
Deactivate_Forgotten(st, i) == st

(* self.is_active = False *)
Deactivate(st, i) == [st EXCEPT !.msgs[i].is_active = FALSE]

(* self.deliver(game_state); self.is_active = False *)
DeliverAndDeactivate(st, i, store, kings) ==
    LET d == deliver(st, i, store, kings)
    IN  IF d.raised THEN d ELSE Deactivate(d, i)

(* An interception that forgets to clear is_active *)
Intercept_StaysActive(st, i) ==
    [st EXCEPT !.msgs[i].health = 0,
               !.events = Append(@, MsgEvent("intercepted", st.msgs[i]))]

(* The branch of Messenger.update taken when the draw is below the risk *)
Intercept(st, i) ==
    [st EXCEPT !.msgs[i].health = 0,
               !.msgs[i].is_active = FALSE,
               !.events = Append(@, MsgEvent("intercepted", st.msgs[i]))]

(* A call of random.random() made for the messenger at index i: the draw *)
(* is logged with its value, in thousandths                              *)
Draw(st, i, sample) ==
    [st EXCEPT !.events = Append(@, Event("draw", st.msgs[i].id,
                                          st.msgs[i].target_entity_id, "", sample, 0, 0))]

(* An update that evaluates the risk where the messenger stood before it *)
(* moved                                                                 *)
MessengerUpdate_RiskBeforeMove(st, i, sample, store, kings) ==
    LET m == st.msgs[i] IN
    IF ~m.is_active \/ m.health <= 0
    THEN IF m.health <= 0 THEN Deactivate(st, i) ELSE st
    ELSE IF Len(m.path) > 1
    THEN LET target_node == m.path[Len(m.path)]
             new_pos == <<StepToward(m.current_pos[1], target_node[1]),
                          StepToward(m.current_pos[2], target_node[2])>>
             moved == new_pos # m.current_pos
             st1 == [st EXCEPT !.msgs[i].current_pos = new_pos]
         IN  IF new_pos = target_node
             THEN DeliverAndDeactivate(st1, i, store, kings)
             ELSE IF moved
                  THEN IF SampleBelowRisk(sample, m.origin_pos, m.current_pos)
                       THEN Intercept(Draw(st1, i, sample), i)
                       ELSE Draw(st1, i, sample)
                  ELSE st1
    ELSE IF Len(m.path) = 1 /\ m.current_pos = m.path[1]
    THEN DeliverAndDeactivate(st, i, store, kings)
    ELSE Deactivate(st, i)

(* Messenger.update for the messenger at index i of st.msgs; sample is the *)
(* value random.random() returns if it is called                           *)
MessengerUpdate(st, i, sample, store, kings) ==
    LET m == st.msgs[i] IN
    IF ~m.is_active \/ m.health <= 0
    THEN IF m.health <= 0 THEN Deactivate(st, i) ELSE st
    ELSE IF Len(m.path) > 1
    THEN LET target_node == m.path[Len(m.path)]
             new_pos == <<StepToward(m.current_pos[1], target_node[1]),
                          StepToward(m.current_pos[2], target_node[2])>>
             moved == new_pos # m.current_pos
             st1 == [st EXCEPT !.msgs[i].current_pos = new_pos]
         IN  IF new_pos = target_node
             THEN DeliverAndDeactivate(st1, i, store, kings)
             ELSE IF moved
                  THEN IF SampleBelowRisk(sample, m.origin_pos, new_pos)
                       THEN Intercept(Draw(st1, i, sample), i)
                       ELSE Draw(st1, i, sample)
                  ELSE st1
    ELSE IF Len(m.path) = 1 /\ m.current_pos = m.path[1]
    THEN DeliverAndDeactivate(st, i, store, kings)
    ELSE Deactivate(st, i)

(* A lookup that finds every unit ever created, dead or removed *)
PathTargetOk_EverCreated(heap, store, t) == t \in DOMAIN heap

(* Whether update_messengers finds the target to compute the path to: *)
(* get_unit_by_id returns it, and it is alive                         *)
PathTargetOk(heap, store, t) == UnitResolves(heap, store, t) /\ heap[t].is_alive

(* A pass that computes the path anew at every update *)
NeedsPath_Always(m) == TRUE

(* `if not messenger.path`: the path is computed at the first update only *)
NeedsPath(m) == m.path = <<>>

(* The body of the loop of update_messengers for the i-th snapshot entry *)
UpdateOneMessenger(st, i, sample, store, kings) ==
    LET m == st.msgs[i] IN
    IF ~m.is_active THEN [st EXCEPT !.remove = @ \cup {m.id}]
    ELSE LET t == m.target_entity_id
             st1 == IF ~NeedsPath(m) THEN st
                    ELSE IF PathTargetOk(st.heap, store, t)
                         THEN [st EXCEPT !.msgs[i] = calculate_path(m, st.heap[t].position)]
                         ELSE [st EXCEPT !.msgs[i].is_active = FALSE,
                                         !.events = Append(@, MsgEvent("target_gone", m))]
         IN  IF ~st1.msgs[i].is_active THEN st1
             ELSE LET st2 == MessengerUpdate(st1, i, sample, store, kings)
                  IN  IF st2.raised THEN st2
                      ELSE IF ~st2.msgs[i].is_active
                      THEN [st2 EXCEPT !.remove = @ \cup {m.id}]
                      ELSE st2

(* A loop over the live dict, which grows while it is iterated *)
SnapshotSize_Live(msgs_at_start, msgs_now) == Len(msgs_now)

(* The entries update_messengers iterates: a copy of the dict taken at the *)
(* start of the pass, so n entries however many are dispatched meanwhile.  *)
SnapshotSize(msgs_at_start, msgs_now) == Len(msgs_at_start)

RECURSIVE MessengerLoop(_, _, _, _, _, _)
MessengerLoop(st, i, start, samples, store, kings) ==
    IF i > SnapshotSize(start, st.msgs) \/ st.raised THEN st
    ELSE MessengerLoop(UpdateOneMessenger(st, i, samples[i], store, kings),
                       i + 1, start, samples, store, kings)

(* A pass that never deletes from active_messengers *)
update_messengers_NoRemoval(st0, samples, store, kings) ==
    MessengerLoop(st0, 1, st0.msgs, samples, store, kings)

(* MessengerModule.update_messengers: the loop, then the removals *)
update_messengers(st0, samples, store, kings) ==
    LET st == MessengerLoop(st0, 1, st0.msgs, samples, store, kings)
    IN  IF st.raised THEN st
        ELSE [st EXCEPT !.msgs = SelectSeq(@, LAMBDA m : m.id \notin st.remove)]

----------------------------------------------------------------------------
(* Combat *)

(* A call defender.receive_damage(amount) made by resolve_combat_tick *)
Hit(st, defender, attacker, amount) ==
    [st EXCEPT
        !.heap[defender] = ReceiveDamage(@, amount),
        !.events = Append(@, Event("hit", 0, defender, attacker, amount,
                                   st.heap[defender].hp, st.heap[attacker].hp))]

(* A retaliation that does not ask whether unit_b is alive *)
Retaliates_Always(b_alive, draw) == draw

(* Whether unit_b strikes back: only if still alive, and then on a draw *)
Retaliates(b_alive, draw) == b_alive /\ draw

(* A resolution in which both units strike on the hit points they had *)
(* when it began                                                      *)
resolve_combat_tick_Simultaneous(st, a, b, draw) ==
    IF ~st.heap[a].is_alive \/ ~st.heap[b].is_alive THEN st
    ELSE LET damage_a_to_b == Max(0, Stat(a).attack - Stat(b).defense)
             damage_b_to_a == Max(0, Stat(b).attack - Stat(a).defense)
             st1 == IF draw[1] THEN Hit(st, b, a, damage_a_to_b) ELSE st
         IN  IF draw[2] THEN Hit(st1, a, b, damage_b_to_a) ELSE st1

(* CombatModule.resolve_combat_tick; draw = the outcomes of the two        *)
(* random.random() < hit_chance tests.  The result is in st.heap.          *)
resolve_combat_tick(st, a, b, draw) ==
    IF ~st.heap[a].is_alive \/ ~st.heap[b].is_alive THEN st
    ELSE LET damage_a_to_b == Max(0, Stat(a).attack - Stat(b).defense)
             damage_b_to_a == Max(0, Stat(b).attack - Stat(a).defense)
             st1 == IF draw[1] THEN Hit(st, b, a, damage_a_to_b) ELSE st
         IN  IF Retaliates(st1.heap[b].is_alive, draw[2])
             THEN Hit(st1, a, b, damage_b_to_a)
             ELSE st1

(* The body of the loop of update_combat for one engagement *)
UpdateOneEngagement(st, e, draw, store) ==
    LET a == e[1]
        b == e[2]
    IN  IF /\ UnitResolves(st.heap, store, a) /\ UnitResolves(st.heap, store, b)
           /\ st.heap[a].is_alive /\ st.heap[b].is_alive
        THEN LET st1 == resolve_combat_tick(st, a, b, draw)
             IN  IF st1.heap[a].is_alive /\ st1.heap[b].is_alive
                 THEN [st1 EXCEPT !.keep = Append(@, e)]
                 ELSE [st1 EXCEPT !.events = Append(@,
                          Event("concluded", 0, b, a, 0, st1.heap[b].hp, st1.heap[a].hp))]
        ELSE [st EXCEPT !.events = Append(@,
                 Event("ended_prematurely", 0, b, a, 0, st.heap[b].hp, st.heap[a].hp))]

RECURSIVE CombatLoop(_, _, _, _, _)
CombatLoop(st, engs, i, draws, store) ==
    IF i > Len(engs) THEN st
    ELSE CombatLoop(UpdateOneEngagement(st, engs[i], draws[i], store),
                    engs, i + 1, draws, store)

(* CombatModule.update_combat: st.keep becomes active_engagements *)
update_combat(engs, heap, store, draws) ==
    CombatLoop([heap |-> heap, events |-> <<>>, keep |-> <<>>], engs, 1, draws, store)

(* An initiate_combat that looks for the pair in the given order only *)
initiate_combat_SameOrderOnly(engs, heap, a, b) ==
    IF heap[a].is_alive /\ heap[b].is_alive /\ PlayerOf(a) # PlayerOf(b)
    THEN IF \A i \in 1 .. Len(engs) : engs[i] # <<a, b>>
         THEN Append(engs, <<a, b>>)
         ELSE engs
    ELSE engs

(* CombatModule.initiate_combat *)
initiate_combat(engs, heap, a, b) ==
    IF heap[a].is_alive /\ heap[b].is_alive /\ PlayerOf(a) # PlayerOf(b)
    THEN IF \A i \in 1 .. Len(engs) : engs[i] # <<a, b>> /\ engs[i] # <<b, a>>
         THEN Append(engs, <<a, b>>)
         ELSE engs
    ELSE engs

----------------------------------------------------------------------------
(* Step 4 of game_loop_tick: unit vision and the periodic reports *)

(* The visibility_update list of a periodic report: the in-bounds tiles of *)
(* the square of side 2 * sight_range + 1 around the unit, row by row.     *)
SquareUpdates(pos, r) ==
    LET side == 2 * r + 1
        full == [i \in 1 .. side * side |->
                    <<pos[1] - r + ((i - 1) % side), pos[2] - r + ((i - 1) \div side), TRUE>>]
    IN  SelectSeq(full, LAMBDA e : is_within_bounds(<<e[1], e[2]>>))

(* report_content; hp, morale and position are carried but never read, *)
(* and it has no type                                                  *)
ReportContent(u, heap) ==
    [type |-> "", unit_id |-> u, target_pos |-> <<>>,
     visibility_update |-> SquareUpdates(heap[u].position, Stat(u).sight_range)]

(* A report every second instead of every five *)
ReportDue_EverySecond(tick) == tick % GAME_TICK_RATE = 0

(* The test of step 4 for the periodic reports *)
ReportDue(tick) == tick % (GAME_TICK_RATE * REPORT_SECONDS) = 0

(* The body of the loop of step 4 for one unit of get_all_active_units *)
FogOneUnit(st, u, heap, kings, tick) ==
    LET p == PlayerOf(u)
        tiles == IF p \in DOMAIN st.maps
                 THEN UnitVisionTiles(heap[u], Stat(u).sight_range) ELSE {}
        st1 == [st EXCEPT
                  !.revealed[p] = @ \cup (tiles \ st.maps[p]),
                  !.maps[p] = @ \cup tiles]
        king == get_king_unit(kings, p)
    IN  IF ReportDue(tick) /\ ~IsKing(u)
        THEN IF king = "None" THEN [st1 EXCEPT !.raised = TRUE]
             ELSE dispatch_messenger(st1, <<"report_from", u>>, p, heap[u].position,
                                     king, ReportContent(u, heap), TRUE)
        ELSE st1

RECURSIVE FogLoop(_, _, _, _, _, _)
FogLoop(st, active, i, heap, kings, tick) ==
    IF i > Len(active) \/ st.raised THEN st
    ELSE FogLoop(FogOneUnit(st, active[i], heap, kings, tick),
                 active, i + 1, heap, kings, tick)

(* A step 4 that applies the King test of the reports to the vision too *)
VisionUnits_NotKings(heap, store) ==
    SelectSeq(get_all_active_units(heap, store), LAMBDA u : ~IsKing(u))

(* The units whose vision step 4 applies *)
VisionUnits(heap, store) == get_all_active_units(heap, store)

----------------------------------------------------------------------------
(* A tick that applies unit vision before it resolves combat *)
NextStep_FogFirst(step) ==
    CASE step = "units"      -> "messengers"
      [] step = "messengers" -> "fog"
      [] step = "fog"        -> "combat"
      [] step = "combat"     -> "end"
      [] step = "end"        -> "idle"

(* The order of the steps of game_loop_tick.  Step 5, update_card_effects, *)
(* works on active_card_effects, which is empty throughout: it is skipped. *)
(* A step that raises leaves the tick at "crashed": the exception goes     *)
(* through game_loop_tick and Game.run, and nothing runs after it.         *)
NextStep(step) ==
    CASE step = "units"      -> "messengers"
      [] step = "messengers" -> "combat"
      [] step = "combat"     -> "fog"
      [] step = "fog"        -> "end"
      [] step = "end"        -> "idle"

----------------------------------------------------------------------------
Init ==
    /\ current_phase = "Opening"
    /\ game_running = FALSE
    /\ tick_count = 0
    /\ pc = "idle"
    /\ unit = [u \in UnitIds |-> NewUnit(u)]
    /\ units = UnitIds
    /\ player_kings = [p \in PlayerSet |->
                          CHOOSE u \in UnitIds : IsKing(u) /\ PlayerOf(u) = p]
    /\ active_messengers = <<>>
    /\ next_messenger_id = 0
    /\ active_engagements = <<>>
    /\ player_maps = [p \in PlayerSet |->
                         LET k == CHOOSE u \in UnitIds : IsKing(u) /\ PlayerOf(u) = p
                         IN  RevealTiles(UnitDef[k].position, Stat(k).sight_range)]
    /\ winner = "none"
    /\ events = <<>>
    /\ inputs = 0
    /\ pass_revealed = [p \in PlayerSet |-> {}]

----------------------------------------------------------------------------
(* What the players and the behaviour layer feed in between two ticks *)

MoveTo(pos) ==
    [type |-> "move_to", unit_id |-> "", target_pos |-> pos, visibility_update |-> <<>>]

AttackUnit(target_unit_id) ==
    [type |-> "attack_unit", unit_id |-> target_unit_id, target_pos |-> <<>>,
     visibility_update |-> <<>>]

(* The orders sent: <<player, target id, payload>>.  To a Pawn of the  *)
(* player, to the player's own King, to an id no unit has, and to a Pawn *)
(* of the other player.                                                 *)
Orders ==
    {<<"player1", "P1_Pawn1", MoveTo(<<0, -1>>)>>,
     <<"player1", "P1_Pawn1", AttackUnit("P2_Pawn1")>>,
     <<"player1", "P1_King", AttackUnit("P2_Pawn1")>>,
     <<"player1", "ghost", AttackUnit("P2_Pawn1")>>,
     <<"player2", "P2_Pawn1", AttackUnit("P1_Pawn1")>>,
     <<"player2", "P1_Pawn1", AttackUnit("P2_Pawn1")>>}

ReportPayloads ==
    {[type |-> "report", unit_id |-> "P1_Pawn1", target_pos |-> <<>>,
      visibility_update |-> <<<<7, 0, TRUE>>, <<0, 0, FALSE>>, <<8, 8, TRUE>>>>]}

PlanTargets == {<<2, 2>>}

(* receive_damage calls: one that strikes a messenger's target down, and *)
(* those that leave the Pawns and the Kings with one hit point          *)
TargetDamage == {<<"P1_Pawn1", 48>>}
SetupDamage == {<<"P1_Pawn1", 9>>, <<"P2_Pawn1", 9>>, <<"P1_King", 49>>, <<"P2_King", 49>>}

(* The pairs the behaviour layer engages, in the order it comes to them *)
EngagementPairs ==
    <<<<"P1_Pawn1", "P2_Pawn1">>, <<"P2_Rook1", "P1_Pawn1">>,
      <<"P2_Rook1", "P1_King">>, <<"P1_Rook1", "P2_King">>>>

PairIndex(e) == CHOOSE i \in 1 .. Len(EngagementPairs) : EngagementPairs[i] = e

(* Game.start_planning_phase: each King gets a move_to order *)
StartPlanningPhase ==
    /\ pc = "idle" /\ current_phase = "Opening" /\ ~game_running
    /\ \A p \in PlayerSet : Len(unit[player_kings[p]].current_orders) < MaxOrders
    /\ \E target \in [PlayerSet -> PlanTargets] :
          unit' = [u \in UnitIds |->
                     IF u \in units /\ unit[u].is_alive /\ IsKing(u)
                     THEN [unit[u] EXCEPT !.current_orders =
                              Append(@, MoveTo(target[PlayerOf(u)]))]
                     ELSE unit[u]]
    /\ events' = <<>>
    /\ UNCHANGED inputs
    /\ UNCHANGED <<current_phase, game_running, tick_count, pc, units, player_kings,
                   active_messengers, next_messenger_id, active_engagements,
                   player_maps, winner, pass_revealed>>

(* Game.confirm_readiness, called as Game.run does: once, after the *)
(* planning phase                                                   *)
ConfirmReadiness ==
    /\ pc = "idle" /\ current_phase = "Opening"
    /\ \A p \in PlayerSet : unit[player_kings[p]].current_orders # <<>>
    /\ current_phase' = "Battle"
    /\ game_running' = TRUE
    /\ events' = <<>>
    /\ UNCHANGED inputs
    /\ UNCHANGED <<tick_count, pc, unit, units, player_kings, active_messengers,
                   next_messenger_id, active_engagements, player_maps, winner,
                   pass_revealed>>

(* A player's King sends an order to any unit id: dispatch_messenger from *)
(* the King's position, as Game.run does.                                 *)
DispatchOrder ==
    /\ pc = "idle" /\ game_running
    /\ \E order \in Orders :
          LET p == order[1]
              st == dispatch_messenger(
                        [msgs |-> active_messengers, next_id |-> next_messenger_id],
                        <<"order", p>>, p, unit[player_kings[p]].position, order[2],
                        order[3], FALSE)
          IN  /\ get_king_unit(player_kings, p) # "None"
              /\ active_messengers' = st.msgs
              /\ next_messenger_id' = st.next_id
    /\ inputs' = inputs + 1
    /\ events' = <<>>
    /\ UNCHANGED <<current_phase, game_running, tick_count, pc, unit, units,
                   player_kings, active_engagements, player_maps, winner,
                   pass_revealed>>

(* A unit sends a report to its King *)
DispatchReport ==
    /\ pc = "idle" /\ game_running
    /\ \E u \in {"P1_Pawn1"}, payload \in ReportPayloads :
          LET p == PlayerOf(u)
              st == dispatch_messenger(
                        [msgs |-> active_messengers, next_id |-> next_messenger_id],
                        <<"report", u>>, p, unit[u].position, player_kings[p],
                        payload, TRUE)
          IN  /\ u \in units /\ unit[u].is_alive
              /\ get_king_unit(player_kings, p) # "None"
              /\ active_messengers' = st.msgs
              /\ next_messenger_id' = st.next_id
    /\ inputs' = inputs + 1
    /\ events' = <<>>
    /\ UNCHANGED <<current_phase, game_running, tick_count, pc, unit, units,
                   player_kings, active_engagements, player_maps, winner,
                   pass_revealed>>

(* The behaviour layer engages two units of the store *)
InitiateCombat ==
    /\ pc = "idle" /\ game_running
    /\ \E i \in 1 .. Len(EngagementPairs) :
          LET e == EngagementPairs[i] IN
          /\ e[1] \in units /\ e[2] \in units
          /\ \A j \in 1 .. Len(active_engagements) : PairIndex(active_engagements[j]) < i
          /\ active_engagements' = initiate_combat(active_engagements, unit, e[1], e[2])
    /\ inputs' = inputs + 1
    /\ events' = <<>>
    /\ UNCHANGED <<current_phase, game_running, tick_count, pc, unit, units,
                   player_kings, active_messengers, next_messenger_id, player_maps,
                   winner, pass_revealed>>

(* unit.receive_damage(amount) called from outside combat, on a fresh unit *)
DamageUnit(DamageInputs) ==
    /\ pc = "idle" /\ game_running
    /\ \E d \in DamageInputs :
          /\ d[1] \in units /\ unit[d[1]].hp = MaxHp(d[1])
          /\ unit' = [unit EXCEPT ![d[1]] = ReceiveDamage(@, d[2])]
    /\ inputs' = inputs + 1
    /\ events' = <<>>
    /\ UNCHANGED <<current_phase, game_running, tick_count, pc, units, player_kings,
                   active_messengers, next_messenger_id, active_engagements,
                   player_maps, winner, pass_revealed>>

----------------------------------------------------------------------------
(* game_loop_tick, step by step *)

(* A tick that does not look at game_running *)
TickRuns_Always(running) == TRUE

(* The test at the top of game_loop_tick: `if not self.game_running: return` *)
TickRuns(running) == running

(* game_loop_tick called while the game is not running: it returns at the *)
(* test; the call is logged                                               *)
IgnoredTick ==
    /\ pc = "idle" /\ ~TickRuns(game_running)
    /\ events' = <<Event("tick_returned", 0, "", "", tick_count, 0, 0)>>
    /\ inputs' = inputs + 1
    /\ UNCHANGED <<current_phase, game_running, tick_count, pc, unit, units, player_kings,
                   active_messengers, next_messenger_id, active_engagements, player_maps,
                   winner, pass_revealed>>

(* The tick starts (it returns at once unless the game is running), the    *)
(* counter goes up, then UnitModule.update_units.                          *)
StepUnits ==
    /\ pc = "idle" /\ TickRuns(game_running)
    /\ tick_count' = tick_count + 1
    /\ LET removed == UnitsToRemove(unit, units)
       IN  /\ unit' = [u \in UnitIds |-> IF u \in units THEN UnitUpdate(unit[u]) ELSE unit[u]]
           /\ units' = units \ removed
           /\ player_kings' =
                 Restrict(player_kings,
                          DOMAIN player_kings \ KingsToDelete(unit, player_kings, removed))
    /\ pc' = NextStep("units")
    /\ events' = <<>>
    /\ pass_revealed' = [p \in PlayerSet |-> {}]
    /\ UNCHANGED inputs
    /\ UNCHANGED <<current_phase, game_running, active_messengers, next_messenger_id,
                   active_engagements, player_maps, winner>>

(* MessengerModule.update_messengers *)
StepMessengers ==
    /\ pc = "messengers"
    /\ \E samples \in [1 .. Len(active_messengers) -> Samples] :
          \E st \in {update_messengers(
                        [msgs |-> active_messengers, heap |-> unit, maps |-> player_maps,
                         next_id |-> next_messenger_id, events |-> <<>>, remove |-> {},
                         raised |-> FALSE],
                        samples, units, player_kings)} :
              /\ active_messengers' = st.msgs
              /\ unit' = st.heap
              /\ player_maps' = st.maps
              /\ next_messenger_id' = st.next_id
              /\ events' = st.events
              /\ pc' = IF st.raised THEN "crashed" ELSE NextStep("messengers")
    /\ UNCHANGED inputs
    /\ UNCHANGED <<current_phase, game_running, tick_count, units, player_kings,
                   active_engagements, winner, pass_revealed>>

(* CombatModule.update_combat *)
StepCombat ==
    /\ pc = "combat"
    /\ \E draws \in [1 .. Len(active_engagements) -> BOOLEAN \X BOOLEAN] :
          \E st \in {update_combat(active_engagements, unit, units, draws)} :
              /\ unit' = st.heap
              /\ active_engagements' = st.keep
              /\ events' = st.events
    /\ pc' = NextStep("combat")
    /\ UNCHANGED inputs
    /\ UNCHANGED <<current_phase, game_running, tick_count, units, player_kings,
                   active_messengers, next_messenger_id, player_maps, winner,
                   pass_revealed>>

(* Step 4: unit vision of every active unit, and the periodic reports *)
StepFog ==
    /\ pc = "fog"
    /\ \E st \in {FogLoop([msgs |-> active_messengers, next_id |-> next_messenger_id,
                          maps |-> player_maps, revealed |-> pass_revealed,
                          raised |-> FALSE],
                         VisionUnits(unit, units), 1, unit, player_kings, tick_count)} :
           /\ active_messengers' = st.msgs
           /\ next_messenger_id' = st.next_id
           /\ player_maps' = st.maps
           /\ pass_revealed' = st.revealed
           /\ pc' = IF st.raised THEN "crashed" ELSE NextStep("fog")
    /\ events' = <<>>
    /\ UNCHANGED inputs
    /\ UNCHANGED <<current_phase, game_running, tick_count, unit, units, player_kings,
                   active_engagements, winner>>

(* The player check_game_end announces as winner, "none" if it goes on *)
AnnouncedWinner(king1_alive, king2_alive) ==
    IF ~king1_alive THEN "player2"
    ELSE IF ~king2_alive THEN "player1"
    ELSE "none"

(* Game.check_game_end; reading .is_alive of the None that get_king_unit *)
(* returns raises before anything is written                            *)
StepEnd ==
    /\ pc = "end"
    /\ IF \E p \in PlayerSet : get_king_unit(player_kings, p) = "None"
       THEN /\ pc' = "crashed"
            /\ UNCHANGED <<game_running, current_phase, winner>>
       ELSE LET king1_alive == unit[get_king_unit(player_kings, "player1")].is_alive
                king2_alive == unit[get_king_unit(player_kings, "player2")].is_alive
                w == AnnouncedWinner(king1_alive, king2_alive)
            IN  /\ pc' = NextStep("end")
                /\ IF w # "none"
                   THEN /\ game_running' = FALSE
                        /\ current_phase' = "Game_Over"
                        /\ winner' = w
                   ELSE UNCHANGED <<game_running, current_phase, winner>>
    /\ events' = <<>>
    /\ UNCHANGED inputs
    /\ UNCHANGED <<tick_count, unit, units, player_kings, active_messengers,
                   next_messenger_id, active_engagements, player_maps, pass_revealed>>

(* The messenger view: orders and reports are dispatched at any time *)
(* between ticks, and a target may be struck down meanwhile.         *)
Next ==
    \/ StartPlanningPhase
    \/ ConfirmReadiness
    \/ inputs < MaxInputs /\ DispatchOrder
    \/ inputs < MaxInputs /\ DispatchReport
    \/ inputs < MaxInputs /\ DamageUnit(TargetDamage)
    \/ tick_count < MaxTick /\ StepUnits
    \/ StepMessengers
    \/ StepCombat
    \/ StepFog
    \/ StepEnd

Spec == Init /\ [][Next]_vars

(* The combat view: the engagements are opened, and the Kings weakened, *)
(* before the first tick of the battle.                                 *)
NextCombat ==
    \/ StartPlanningPhase
    \/ ConfirmReadiness
    \/ inputs < MaxSetup /\ tick_count = 0 /\ InitiateCombat
    \/ inputs < MaxSetup /\ tick_count = 0 /\ DamageUnit(SetupDamage)
    \/ tick_count < MaxCombatTick /\ StepUnits
    \/ StepMessengers
    \/ StepCombat
    \/ StepFog
    \/ StepEnd

SpecCombat == Init /\ [][NextCombat]_vars

----------------------------------------------------------------------------
(* The engagement view: initiate_combat is called on any two unit objects, *)
(* in any order and at any time between two ticks, also on the same unit   *)
(* twice, on units of one player, on dead units and on engaged pairs.      *)

EngageUnits == {"P1_Pawn1", "P1_Rook1", "P2_Pawn1"}

(* receive_damage calls that kill a Pawn and leave the other with 1 hp *)
EngageDamage == {<<"P1_Pawn1", 48>>, <<"P2_Pawn1", 9>>}

InitiateAnyCombat ==
    /\ pc = "idle" /\ game_running
    /\ \E a \in EngageUnits, b \in EngageUnits :
          /\ active_engagements' = initiate_combat(active_engagements, unit, a, b)
          /\ events' = <<Event("initiate", 0, b, a, 0, unit[b].hp, unit[a].hp)>>
    /\ inputs' = inputs + 1
    /\ UNCHANGED <<current_phase, game_running, tick_count, pc, unit, units,
                   player_kings, active_messengers, next_messenger_id, player_maps,
                   winner, pass_revealed>>

NextEngage ==
    \/ StartPlanningPhase
    \/ ConfirmReadiness
    \/ inputs < MaxEngage /\ InitiateAnyCombat
    \/ inputs < MaxEngage /\ DamageUnit(EngageDamage)
    \/ tick_count < MaxEngageTick /\ StepUnits
    \/ StepMessengers
    \/ StepCombat
    \/ StepFog
    \/ StepEnd

SpecEngage == Init /\ [][NextEngage]_vars

----------------------------------------------------------------------------
(* The fog-of-war module on its own: FogOfWarModule.__init__ leaves     *)
(* player_maps empty, and its methods are then called in any order.     *)
(* Here `events` is the list of the calls made so far.                  *)

InitFog ==
    /\ current_phase = "Opening"
    /\ game_running = FALSE
    /\ tick_count = 0
    /\ pc = "idle"
    /\ unit = [u \in UnitIds |-> NewUnit(u)]
    /\ units = UnitIds
    /\ player_kings = [p \in PlayerSet |->
                          CHOOSE u \in UnitIds : IsKing(u) /\ PlayerOf(u) = p]
    /\ active_messengers = <<>>
    /\ next_messenger_id = 0
    /\ active_engagements = <<>>
    /\ player_maps = <<>>
    /\ winner = "none"
    /\ events = <<>>
    /\ inputs = 0
    /\ pass_revealed = [p \in PlayerSet |-> {}]

(* Centers on the board, on its edge and off it; radii up to a Pawn's sight *)
RevealCenters == {<<0, 0>>, <<5, 5>>, <<-1, 3>>, <<9, 9>>}
RevealRadii == {0, 2}

(* visibility_update lists: a single visible tile, one with a hidden    *)
(* entry and an entry off the board on the high side, one with entries *)
(* off the board on the low side                                       *)
ReportUpdates ==
    {<<<<5, 5, TRUE>>>>,
     <<<<7, 0, TRUE>>, <<0, 0, FALSE>>, <<8, 8, TRUE>>>>,
     <<<<-1, 3, TRUE>>, <<5, 5, FALSE>>, <<3, -1, TRUE>>, <<0, 0, TRUE>>>>}

FogFrame ==
    UNCHANGED <<current_phase, game_running, tick_count, pc, unit, units, player_kings,
                active_messengers, next_messenger_id, active_engagements, winner,
                pass_revealed>>

(* FogOfWarModule.initialize_player_map: a grid of False *)
InitializePlayerMap ==
    /\ \E p \in PlayerSet :
          /\ player_maps' = [q \in DOMAIN player_maps \cup {p} |->
                                IF q = p THEN {} ELSE player_maps[q]]
          /\ events' = Append(events, [ev |-> "initialize_player_map", player |-> p])
    /\ inputs' = inputs + 1
    /\ FogFrame

(* A call of reveal_area *)
RevealArea ==
    /\ \E p \in PlayerSet, center \in RevealCenters, radius \in RevealRadii :
          /\ player_maps' = reveal_area(player_maps, p, center, radius)
          /\ events' = Append(events, [ev |-> "reveal_area", player |-> p,
                                        center |-> center, radius |-> radius])
    /\ inputs' = inputs + 1
    /\ FogFrame

(* A call of update_player_map_from_report *)
MergeReport ==
    /\ \E p \in PlayerSet, updates \in ReportUpdates :
          /\ player_maps' = update_player_map_from_report(
                                player_maps, p, [visibility_update |-> updates])
          /\ events' = Append(events, [ev |-> "report", player |-> p,
                                        updates |-> updates])
    /\ inputs' = inputs + 1
    /\ FogFrame

NextFog ==
    \/ inputs < MaxFogCalls /\ InitializePlayerMap
    \/ inputs < MaxFogCalls /\ RevealArea
    \/ inputs < MaxFogCalls /\ MergeReport

SpecFog == InitFog /\ [][NextFog]_vars

----------------------------------------------------------------------------
(* The failure view: two units are engaged before the first tick; one    *)
(* order is sent, to a unit that may be gone or never was, and a Pawn or *)
(* a King is struck from outside, at any time between two ticks.         *)

(* receive_damage calls that kill a Pawn, kill a King, and leave a King *)
(* with one hit point                                                   *)
FailDamage == {<<"P1_Pawn1", 48>>, <<"P1_King", 50>>, <<"P1_King", 49>>}

NextFail ==
    \/ StartPlanningPhase
    \/ ConfirmReadiness
    \/ inputs < MaxFailInputs /\ next_messenger_id = 0 /\ DispatchOrder
    \/ /\ inputs < MaxFailInputs
       /\ tick_count = 0 /\ active_engagements = <<>>
       /\ InitiateCombat
    \/ inputs < MaxFailInputs /\ DamageUnit(FailDamage)
    \/ tick_count < MaxFailTick /\ StepUnits
    \/ StepMessengers
    \/ StepCombat
    \/ StepFog
    \/ StepEnd

SpecFail == Init /\ [][NextFail]_vars

----------------------------------------------------------------------------
(* The report view: the battle runs undisturbed until the eve of the first *)
(* periodic report, then units are engaged and struck from outside.        *)

NextReport ==
    \/ StartPlanningPhase
    \/ ConfirmReadiness
    \/ /\ inputs < MaxReportInputs
       /\ tick_count + 1 >= GAME_TICK_RATE * REPORT_SECONDS
       /\ InitiateCombat
    \/ /\ inputs < MaxReportInputs
       /\ tick_count + 1 >= GAME_TICK_RATE * REPORT_SECONDS
       /\ DamageUnit(EngageDamage)
    \/ tick_count < MaxReportTick /\ StepUnits
    \/ StepMessengers
    \/ StepCombat
    \/ StepFog
    \/ StepEnd

SpecReport == Init /\ [][NextReport]_vars

----------------------------------------------------------------------------
(* The unit module on its own: UnitModule.__init__ leaves units and        *)
(* player_kings empty, and create_unit is then called.  Here `events` is   *)
(* the last call and how it ended.                                         *)

InitCreate ==
    /\ current_phase = "Opening"
    /\ game_running = FALSE
    /\ tick_count = 0
    /\ pc = "idle"
    /\ unit = <<>>
    /\ units = {}
    /\ player_kings = <<>>
    /\ active_messengers = <<>>
    /\ next_messenger_id = 0
    /\ active_engagements = <<>>
    /\ player_maps = <<>>
    /\ winner = "none"
    /\ events = <<>>
    /\ inputs = 0
    /\ pass_revealed = [p \in PlayerSet |-> {}]

(* The calls of initialize_game, the call with an unknown type that the *)
(* module's own test makes, and a King whose type is misspelt           *)
CreateRequests ==
    {<<u, UnitDef[u].player_id, UnitDef[u].unit_type, UnitDef[u].position>> : u \in UnitIds}
       \cup {<<"Invalid_Unit", "playerX", "Dragon", <<4, 4>>>>,
             <<"P1_King", "player1", "Kign", <<0, 0>>>>}

CreateUnit ==
    /\ \E req \in CreateRequests :
          \E st \in {create_unit([heap |-> unit, store |-> units, kings |-> player_kings],
                                 req[1], req[2], req[3], req[4])} :
              /\ unit' = st.heap
              /\ units' = st.store
              /\ player_kings' = st.kings
              /\ events' = <<[ev |-> "create_unit", unit |-> req[1], player |-> req[2],
                              unit_type |-> req[3], outcome |-> st.outcome]>>
    /\ inputs' = inputs + 1
    /\ UNCHANGED <<current_phase, game_running, tick_count, pc, active_messengers,
                   next_messenger_id, active_engagements, player_maps, winner,
                   pass_revealed>>

NextCreate ==
    \/ inputs < MaxCreate /\ CreateUnit

SpecCreate == InitCreate /\ [][NextCreate]_vars

----------------------------------------------------------------------------
(* The scheduler view: game_loop_tick is called at any time, also before *)
(* confirm_readiness and after the match has ended with an order on its  *)
(* way.                                                                  *)

StoppedDamage == {<<"P1_King", 50>>}

NextStopped ==
    \/ StartPlanningPhase
    \/ ConfirmReadiness
    \/ inputs < MaxStoppedInputs /\ next_messenger_id = 0 /\ DispatchOrder
    \/ inputs < MaxStoppedInputs /\ DamageUnit(StoppedDamage)
    \/ inputs < MaxStoppedInputs /\ IgnoredTick
    \/ tick_count < MaxStoppedTick /\ StepUnits
    \/ StepMessengers
    \/ StepCombat
    \/ StepFog
    \/ StepEnd

SpecStopped == Init /\ [][NextStopped]_vars

----------------------------------------------------------------------------
(* The lifetime view: the players dispatch before the first tick only, so *)
(* that every order and report of theirs is tick_count ticks old, and the *)
(* ticks run long enough for an order to cross the board.                 *)

NextLife ==
    \/ StartPlanningPhase
    \/ ConfirmReadiness
    \/ inputs < MaxLifeInputs /\ tick_count = 0 /\ DispatchOrder
    \/ inputs < MaxLifeInputs /\ tick_count = 0 /\ DispatchReport
    \/ inputs < MaxLifeInputs /\ DamageUnit(TargetDamage)
    \/ tick_count < MaxLifeTick /\ StepUnits
    \/ StepMessengers
    \/ StepCombat
    \/ StepFog
    \/ StepEnd

SpecLife == Init /\ [][NextLife]_vars

----------------------------------------------------------------------------
(* The order view: orders are put on the queue of a Pawn directly, as    *)
(* start_planning_phase and deliver do with current_orders.append, at    *)
(* any time between two ticks.  A move_to two tiles away, one to the     *)
(* tile the Pawn starts on, one without target_pos, and an attack order. *)

QueuedOrders ==
    {MoveTo(<<2, 3>>), MoveTo(<<0, 1>>), MoveTo(<<>>), AttackUnit("P2_Pawn1")}

QueueOrder ==
    /\ pc = "idle" /\ game_running
    /\ "P1_Pawn1" \in units /\ unit["P1_Pawn1"].is_alive
    /\ \E order \in QueuedOrders :
          unit' = [unit EXCEPT !["P1_Pawn1"].current_orders = Append(@, order)]
    /\ inputs' = inputs + 1
    /\ events' = <<>>
    /\ UNCHANGED <<current_phase, game_running, tick_count, pc, units, player_kings,
                   active_messengers, next_messenger_id, active_engagements,
                   player_maps, winner, pass_revealed>>

NextQueue ==
    \/ StartPlanningPhase
    \/ ConfirmReadiness
    \/ inputs < MaxQueueInputs /\ QueueOrder
    \/ tick_count < MaxQueueTick /\ StepUnits
    \/ StepMessengers
    \/ StepCombat
    \/ StepFog
    \/ StepEnd

SpecQueue == Init /\ [][NextQueue]_vars

----------------------------------------------------------------------------
(* The risk view: the risk branch of Messenger.update alone.  A messenger   *)
(* that set out from origin_pos for dest has just moved to current_pos and  *)
(* the risk of its draw is computed; `events` is the log of these calls.    *)

RiskPositions == {<<0, 0>>, <<3, 4>>, <<4, 3>>, <<0, 5>>, <<0, 200>>}

RiskDestinations == {<<8, 8>>, <<0, 200>>}

RiskCall ==
    /\ \E origin_pos \in RiskPositions, current_pos \in RiskPositions,
          dest \in RiskDestinations :
          LET m == [origin_pos |-> origin_pos, current_pos |-> current_pos,
                    path |-> <<origin_pos, dest>>]
          IN  events' = Append(events,
                               [ev |-> "risk", origin_pos |-> m.origin_pos,
                                current_pos |-> m.current_pos, path |-> m.path,
                                risk |-> get_messenger_risk(m.origin_pos, m.current_pos)])
    /\ inputs' = inputs + 1
    /\ UNCHANGED <<current_phase, game_running, tick_count, pc, unit, units, player_kings,
                   active_messengers, next_messenger_id, active_engagements, player_maps,
                   winner, pass_revealed>>

NextRisk ==
    \/ inputs < MaxRiskCalls /\ RiskCall

SpecRisk == Init /\ [][NextRisk]_vars

----------------------------------------------------------------------------
(* What the properties below read off a state *)

Opponent(p) == IF p = "player1" THEN "player2" ELSE "player1"

KingId(p) == CHOOSE u \in UnitIds : IsKing(u) /\ PlayerOf(u) = p

Abs(n) == IF n < 0 THEN -n ELSE n

Chebyshev(a, b) == Max(Abs(a[1] - b[1]), Abs(a[2] - b[2]))

EventIdx(evs, name) == {i \in 1 .. Len(evs) : evs[i].ev = name}

MessengerIdx(msgs, id) == {i \in 1 .. Len(msgs) : msgs[i].id = id}

(* A messenger that the coming pass brings to the end of its path while *)
(* its target is gone from the store or dead                            *)
FailingArrival(m) ==
    /\ m.is_active /\ m.health > 0
    /\ Len(m.path) > 1
    /\ Chebyshev(m.current_pos, m.path[Len(m.path)]) <= 1
    /\ ~(m.target_entity_id \in units /\ unit[m.target_entity_id].is_alive)

(* A messenger that the coming pass brings to the end of its path *)
Arrives(m) ==
    /\ m.is_active /\ m.health > 0
    /\ \/ /\ Len(m.path) > 1
          /\ Chebyshev(m.current_pos, m.path[Len(m.path)]) <= 1
       \/ /\ m.path = <<>>
          /\ m.target_entity_id \in units /\ unit[m.target_entity_id].is_alive
          /\ Chebyshev(m.origin_pos, unit[m.target_entity_id].position) <= 1

(* A messenger that the coming pass brings to its destination, the place *)
(* of its target when its path is computed, with the target in the store *)
(* and alive                                                             *)
Delivers(m) ==
    /\ m.is_active /\ m.health > 0
    /\ m.target_entity_id \in units /\ unit[m.target_entity_id].is_alive
    /\ LET dest == IF m.path = <<>> THEN unit[m.target_entity_id].position
                   ELSE m.path[Len(m.path)]
       IN  is_within_bounds(dest) /\ Chebyshev(m.current_pos, dest) = 1

----------------------------------------------------------------------------
(* C1: every unit has 0 <= hp <= max_hp, and is alive exactly when its hp *)
(* is positive: receive_damage floors hp at 0 and clears is_alive in the  *)
(* same step.                                                             *)
C1_HpWithinBounds ==
    \A u \in UnitIds :
        /\ 0 <= unit[u].hp /\ unit[u].hp <= MaxHp(u)
        /\ unit[u].is_alive <=> unit[u].hp > 0

(* A hit whose amount exceeds the hit points left: the unit is at 0, dead *)
C1_Witness ==
    \E i \in EventIdx(events, "hit") :
        /\ events[i].unit_hp - events[i].n < 0
        /\ unit[events[i].unit].hp = 0
        /\ ~unit[events[i].unit].is_alive

(* C2: the damage of a combat hit is max(0, attack - defense), never      *)
(* negative, so the combat step raises no unit's hp; a unit at 0 hp stays *)
(* at 0 hp for ever, and no hit is ever dealt by a unit at 0 hp.          *)
C2_NoDamageFromTheDead ==
    [][/\ \A u \in UnitIds : unit[u].hp = 0 => unit'[u].hp = 0
       /\ pc = "combat" => \A u \in UnitIds : unit'[u].hp <= unit[u].hp
       /\ \A i \in EventIdx(events', "hit") :
             /\ events'[i].n >= 0
             /\ events'[i].n =
                   Max(0, Stat(events'[i].by).attack - Stat(events'[i].unit).defense)
             /\ events'[i].by_hp > 0
             /\ events'[i].unit_hp > 0]_vars

(* A unit is killed by one engagement, and a later engagement of the same *)
(* pass, of which it is a member too, is dropped; a hit of amount 0 was   *)
(* dealt by a unit whose attack is below the defense it met.              *)
C2_Witness ==
    /\ \E i \in EventIdx(events, "hit"), j \in EventIdx(events, "ended_prematurely") :
          /\ i < j
          /\ events[i].unit_hp - events[i].n <= 0
          /\ events[i].unit \in {events[j].unit, events[j].by}
    /\ \E k \in EventIdx(events, "hit") :
          /\ events[k].n = 0
          /\ Stat(events[k].by).attack < Stat(events[k].unit).defense

(* C3: visibility grids only grow: no step, and no report entry with *)
(* visible = false, hides a tile that was visible.                   *)
C3_GridsMonotonic ==
    [][\A p \in PlayerSet : player_maps[p] \subseteq player_maps'[p]]_vars

(* A report listing (0,0) as not visible and (7,0) as visible has been *)
(* merged in the first tick: (7,0), out of every unit's sight, is      *)
(* visible, and (0,0) still is.                                        *)
C3_Witness ==
    /\ tick_count = 1 /\ pc = "combat"
    /\ EventIdx(events, "delivered_report") # {}
    /\ Cell(7, 0) \in player_maps["player1"]
    /\ Cell(0, 0) \in player_maps["player1"]

(* C4: in a messenger pass the new messengers are exactly the return    *)
(* messengers of the orders delivered, one per delivery and in delivery *)
(* order: each is a report of the player of the order, starts at the    *)
(* position of the unit that got the order and goes to that player's    *)
(* King.  Every delivery lengthens its target's queue by one, and a     *)
(* pass without a delivered order dispatches nothing.                   *)
C4_OneReceiptPerDelivery ==
    [][pc = "messengers" =>
        LET delivered == EventIdx(events', "delivered_order")
            Rank(i) == Cardinality({j \in delivered : j < i})
        IN  /\ next_messenger_id' = next_messenger_id + Cardinality(delivered)
            /\ \A u \in UnitIds :
                  Len(unit'[u].current_orders) =
                     Len(unit[u].current_orders)
                        + Cardinality({i \in delivered : events'[i].unit = u})
            /\ \A i \in delivered :
                  \E k \in MessengerIdx(active_messengers, events'[i].msg),
                     r \in MessengerIdx(active_messengers', next_messenger_id + Rank(i)) :
                      LET m == active_messengers[k]
                          receipt == active_messengers'[r]
                      IN  /\ ~m.is_report
                          /\ m.target_entity_id = events'[i].unit
                          /\ receipt.is_report
                          /\ receipt.player_id = m.player_id
                          /\ receipt.origin_pos = unit'[m.target_entity_id].position
                          /\ receipt.target_entity_id = player_kings[m.player_id]]_vars

(* An order has just been delivered and its return messenger is on the list *)
C4_Witness ==
    /\ pc = "combat"
    /\ EventIdx(events, "delivered_order") # {}
    /\ \E i \in 1 .. Len(active_messengers) :
          /\ active_messengers[i].prefix[1] = "return_msg"
          /\ active_messengers[i].id = next_messenger_id - 1

(* C5: between two ticks, a King at 0 hp means that the match is over and *)
(* that the opponent of that King's player is the announced winner.       *)
C5_DeadKingOpponentWins ==
    (pc = "idle" /\ tick_count > 0) =>
        \A p \in PlayerSet :
            unit[KingId(p)].hp = 0 =>
                /\ ~game_running
                /\ current_phase = "Game_Over"
                /\ winner = Opponent(p)

(* C6: outside the messenger pass, every messenger on the list is active *)
(* and has health left.                                                  *)
C6_OnlyLiveMessengersKept ==
    pc # "messengers" =>
        \A i \in 1 .. Len(active_messengers) :
            active_messengers[i].is_active /\ active_messengers[i].health > 0

(* C7: the messengers a pass dispatches come out of it untouched: no path, *)
(* still at their origin, active, at full health, and nothing was logged   *)
(* about them.                                                             *)
C7_NewMessengerWaitsATick ==
    [][pc = "messengers" =>
        \A i \in 1 .. Len(active_messengers') :
            LET m == active_messengers'[i]
            IN  m.id >= next_messenger_id =>
                   /\ m.path = <<>>
                   /\ m.current_pos = m.origin_pos
                   /\ m.is_active
                   /\ m.health = MESSENGER_HEALTH
                   /\ \A j \in 1 .. Len(events') : events'[j].msg # m.id]_vars

(* A return messenger dispatched in one tick got its path and made its *)
(* first move in a later one                                           *)
C7_Witness ==
    /\ pc = "combat" /\ tick_count > 1
    /\ \E i \in 1 .. Len(active_messengers) :
          /\ active_messengers[i].prefix[1] = "return_msg"
          /\ Len(active_messengers[i].path) > 1
          /\ active_messengers[i].current_pos # active_messengers[i].origin_pos

(* C8: when the combat pass is over, both members of every engagement *)
(* kept are in the store and alive.                                   *)
C8_KeptEngagementsAlive ==
    pc = "fog" =>
        \A i \in 1 .. Len(active_engagements) :
            \A u \in {active_engagements[i][1], active_engagements[i][2]} :
                u \in units /\ unit[u].is_alive

(* C9: at the end of a tick, every tile that unit vision newly revealed *)
(* to a player in this tick is within sight of a unit of that player    *)
(* which is in the store and alive after the combat step.               *)
C9_NoVisionFromTheDead ==
    pc = "end" =>
        \A p \in PlayerSet : \A t \in pass_revealed[p] :
            \E u \in units :
                /\ PlayerOf(u) = p /\ unit[u].is_alive
                /\ t \in RevealTiles(unit[u].position, Stat(u).sight_range)

(* The King of player 1 moved to (1,1) and was killed by combat in the   *)
(* same tick: its player got new tiles from another unit, but not (7,1), *)
(* which only the King could see.                                        *)
C9_Witness ==
    /\ pc = "end"
    /\ unit["P1_King"].hp = 0 /\ unit["P1_King"].position = <<1, 1>>
    /\ pass_revealed["player1"] # {}
    /\ Cell(7, 1) \in RevealTiles(<<1, 1>>, Stat("P1_King").sight_range)
    /\ Cell(7, 1) \notin player_maps["player1"]

(* C10: a pass in which the only messengers to arrive find their target *)
(* gone or dead changes no unit, no grid and dispatches nothing, and    *)
(* these messengers are off the list afterwards.                        *)
C10_FailedDeliveryNoEffect ==
    [][(/\ pc = "messengers"
        /\ \E i \in 1 .. Len(active_messengers) : FailingArrival(active_messengers[i])
        /\ \A i \in 1 .. Len(active_messengers) :
              Arrives(active_messengers[i]) => FailingArrival(active_messengers[i]))
       => /\ unit' = unit
          /\ player_maps' = player_maps
          /\ next_messenger_id' = next_messenger_id
          /\ \A i \in 1 .. Len(active_messengers) :
                FailingArrival(active_messengers[i]) =>
                   MessengerIdx(active_messengers', active_messengers[i].id) = {}]_vars

(* An order messenger reached the place of its target after the target *)
(* was struck down: the delivery failed and the messenger is gone      *)
C10_Witness ==
    /\ pc = "combat"
    /\ \E j \in EventIdx(events, "delivery_failed") :
          /\ ~unit[events[j].unit].is_alive
          /\ unit[events[j].unit].current_orders = <<>>
          /\ MessengerIdx(active_messengers, events[j].msg) = {}

(* C11: a messenger without a path whose target is not in the store or is *)
(* dead comes out of the pass inactive and otherwise untouched: no path,   *)
(* still at its origin, at full health, and the only thing logged about it *)
(* is that its target is gone (no interception, no delivery).  A pass over *)
(* such messengers only changes no unit and no grid and dispatches nothing. *)
C11_GoneTargetGoesInactive ==
    [][pc = "messengers" =>
        LET gone == {i \in 1 .. Len(active_messengers) :
                        /\ active_messengers[i].is_active
                        /\ active_messengers[i].path = <<>>
                        /\ ~DeliveryTargetOk(unit, units, active_messengers[i])}
        IN  /\ \A i \in gone :
                  /\ \A k \in MessengerIdx(active_messengers', active_messengers[i].id) :
                        active_messengers'[k] =
                           [active_messengers[i] EXCEPT !.is_active = FALSE]
                  /\ \A j \in 1 .. Len(events') :
                        events'[j].msg = active_messengers[i].id =>
                           events'[j].ev = "target_gone"
            /\ (gone # {} /\ \A i \in 1 .. Len(active_messengers) :
                                 i \in gone \/ ~active_messengers[i].is_active)
                  => /\ unit' = unit
                     /\ player_maps' = player_maps
                     /\ next_messenger_id' = next_messenger_id]_vars

(* An order for a unit that was struck down before the messenger's first *)
(* update: the messenger is inactive, has no path and is at its origin   *)
C11_Witness ==
    /\ pc = "combat"
    /\ \E j \in EventIdx(events, "target_gone") :
          /\ events[j].unit \in UnitIds
          /\ ~unit[events[j].unit].is_alive
          /\ \E k \in MessengerIdx(active_messengers, events[j].msg) :
                /\ ~active_messengers[k].is_active
                /\ active_messengers[k].path = <<>>
                /\ active_messengers[k].current_pos = active_messengers[k].origin_pos
                /\ active_messengers[k].health = MESSENGER_HEALTH

(* C12: between two ticks, a messenger that has not had its first update *)
(* and whose target stands outside the battlefield is not active, and it *)
(* is still at its origin.                                               *)
C12_OutOfBoundsNeverActive ==
    pc = "idle" =>
        \A i \in 1 .. Len(active_messengers) :
            LET m == active_messengers[i]
            IN  (/\ m.path = <<>>
                 /\ m.target_entity_id \in units
                 /\ ~is_within_bounds(unit[m.target_entity_id].position))
                => /\ ~m.is_active
                   /\ m.current_pos = m.origin_pos

(* C13: the loop body of the messenger pass, applied to any messenger of   *)
(* the list with any draw: if it is intercepted it comes out with health 0 *)
(* and inactive, and no unit, no grid and no messenger but itself has      *)
(* changed.  In the pass itself an intercepted messenger was an active     *)
(* member of the list, is off the list afterwards and has no delivery      *)
(* logged; deliveries are only made by messengers that were on the list,   *)
(* so none is made for it later either.                                    *)
C13_InterceptedNeverDelivers ==
    [][pc = "messengers" =>
        /\ \A i \in 1 .. Len(active_messengers), sample \in Samples :
              LET st == [msgs |-> active_messengers, heap |-> unit, maps |-> player_maps,
                         next_id |-> next_messenger_id, events |-> <<>>, remove |-> {},
                         raised |-> FALSE]
                  st2 == UpdateOneMessenger(st, i, sample, units, player_kings)
              IN  EventIdx(st2.events, "intercepted") # {} =>
                     /\ st2.msgs[i].health = 0
                     /\ ~st2.msgs[i].is_active
                     /\ st2.heap = unit
                     /\ st2.maps = player_maps
                     /\ st2.next_id = next_messenger_id
                     /\ Len(st2.msgs) = Len(active_messengers)
                     /\ \A k \in 1 .. Len(st2.msgs) :
                           k # i => st2.msgs[k] = active_messengers[k]
        /\ \A j \in EventIdx(events', "intercepted") :
              /\ \E k \in MessengerIdx(active_messengers, events'[j].msg) :
                    active_messengers[k].is_active
              /\ MessengerIdx(active_messengers', events'[j].msg) = {}
              /\ \A d \in EventIdx(events', "delivered_order")
                              \cup EventIdx(events', "delivered_report") :
                    events'[d].msg # events'[j].msg
        /\ \A d \in EventIdx(events', "delivered_order")
                        \cup EventIdx(events', "delivered_report") :
              MessengerIdx(active_messengers, events'[d].msg) # {}]_vars

(* An order on its way to a unit was intercepted: it is off the list and *)
(* the unit's queue is as it was                                        *)
C13_Witness ==
    /\ pc = "combat"
    /\ \E j \in EventIdx(events, "intercepted") :
          /\ MessengerIdx(active_messengers, events[j].msg) = {}
          /\ events[j].unit \in UnitIds
          /\ ~IsKing(events[j].unit)
          /\ unit[events[j].unit].current_orders = <<>>

(* C14: in a messenger pass, a messenger whose target is in the store and *)
(* alive at a place on the battlefield, and which is not intercepted,     *)
(* gets one tile closer (in max(|dx|, |dy|)) to its destination, the      *)
(* place of its target at its first update; when it has at most one tile  *)
(* to go, none included, it delivers in this pass.  So it delivers in its *)
(* max(|dx|, |dy|)-th update at the latest, and a messenger from (0,0) to *)
(* (1,1) in its first, the tick after its dispatch.                       *)
C14_DeliversWithinDistance ==
    [][pc = "messengers" =>
        \A i \in 1 .. Len(active_messengers) :
            LET m == active_messengers[i]
                dest == IF m.path = <<>> THEN unit[m.target_entity_id].position
                        ELSE m.path[Len(m.path)]
                left == Chebyshev(m.current_pos, dest)
                intercepted == \E j \in EventIdx(events', "intercepted") :
                                   events'[j].msg = m.id
                delivered == \E j \in EventIdx(events', "delivered_order")
                                        \cup EventIdx(events', "delivered_report") :
                                 events'[j].msg = m.id
            IN  (/\ m.is_active /\ m.health > 0
                 /\ DeliveryTargetOk(unit, units, m)
                 /\ is_within_bounds(dest)
                 /\ ~intercepted)
                => IF left <= 1 THEN delivered
                   ELSE \E k \in MessengerIdx(active_messengers', m.id) :
                           LET n == active_messengers'[k]
                           IN  /\ n.is_active
                               /\ n.path # <<>>
                               /\ n.path[Len(n.path)] = dest
                               /\ Chebyshev(n.current_pos, dest) = left - 1]_vars

(* C15: a messenger pass in which no order but at least one report is    *)
(* delivered dispatches no messenger and changes no unit, its order queue *)
(* included; after any pass the grid of each player is what it was plus   *)
(* the tiles listed as visible by the reports delivered for messengers    *)
(* that player owns, and each report delivered is logged once.            *)
C15_ReportOnlyMerges ==
    [][pc = "messengers" =>
        LET arriving == {i \in 1 .. Len(active_messengers) : Delivers(active_messengers[i])}
            reports == {i \in arriving : active_messengers[i].is_report}
        IN  /\ (reports # {} /\ reports = arriving) =>
                  /\ next_messenger_id' = next_messenger_id
                  /\ \A k \in 1 .. Len(active_messengers') :
                        MessengerIdx(active_messengers, active_messengers'[k].id) # {}
                  /\ unit' = unit
            /\ \A p \in PlayerSet :
                  player_maps'[p] =
                     player_maps[p] \cup
                        UNION {ReportTiles(active_messengers[i].payload_data.visibility_update) :
                                  i \in {r \in reports : active_messengers[r].player_id = p}}
            /\ \A i \in reports :
                  Cardinality({j \in EventIdx(events', "delivered_report") :
                                  events'[j].msg = active_messengers[i].id}) = 1]_vars

(* The only messenger ever dispatched was a report, and it was delivered: *)
(* its tile (7,0) is visible to its owner alone and no unit has an order  *)
(* it did not have                                                        *)
C15_Witness ==
    /\ pc = "combat"
    /\ next_messenger_id = 1
    /\ \E j \in EventIdx(events, "delivered_report") : events[j].msg = 0
    /\ active_messengers = <<>>
    /\ Cell(7, 0) \in player_maps["player1"]
    /\ Cell(7, 0) \notin player_maps["player2"]
    /\ \A u \in UnitIds : ~IsKing(u) => unit[u].current_orders = <<>>

(* C16: a call of update_player_map_from_report for a player with a grid  *)
(* leaves a tile visible exactly if it was visible or the list has an     *)
(* entry with its coordinates and visible = true; no other grid changes,  *)
(* and for a player without a grid nothing changes.                       *)
C16_MergeSetsListedTiles ==
    [][(Len(events') = Len(events) + 1 /\ events'[Len(events')].ev = "report") =>
        LET call == events'[Len(events')]
            listed == {t \in Tiles :
                         \E k \in 1 .. Len(call.updates) :
                            /\ call.updates[k][1] = CellX(t)
                            /\ call.updates[k][2] = CellY(t)
                            /\ call.updates[k][3]}
        IN  IF call.player \in DOMAIN player_maps
            THEN /\ DOMAIN player_maps' = DOMAIN player_maps
                 /\ player_maps'[call.player] = player_maps[call.player] \cup listed
                 /\ \A q \in DOMAIN player_maps :
                       q # call.player => player_maps'[q] = player_maps[q]
            ELSE player_maps' = player_maps]_vars

(* The report [(5,5,true)] merged into a grid just initialized: only *)
(* (5,5) is visible                                                  *)
C16_Witness ==
    /\ Len(events) = 3
    /\ events[3] = [ev |-> "report", player |-> "player1", updates |-> <<<<5, 5, TRUE>>>>]
    /\ events[2] = [ev |-> "initialize_player_map", player |-> "player1"]
    /\ player_maps["player1"] = {Cell(5, 5)}

(* C17: a call of reveal_area that repeats the call before it, with the *)
(* same player, center and radius, changes no grid.                     *)
C17_RevealIdempotent ==
    [][(/\ Len(events') = Len(events) + 1
        /\ events # <<>>
        /\ events'[Len(events')].ev = "reveal_area"
        /\ events'[Len(events')] = events[Len(events)])
       => player_maps' = player_maps]_vars

(* reveal_area was called twice in a row for a center off the board and *)
(* revealed tiles                                                       *)
C17_Witness ==
    /\ Len(events) = 3
    /\ events[3].ev = "reveal_area"
    /\ events[3] = events[2]
    /\ events[3].center = <<-1, 3>>
    /\ events[3].player \in DOMAIN player_maps
    /\ player_maps[events[3].player] # {}
    /\ player_maps[events[3].player] # Tiles

(* C19: in a combat pass, a hit that takes a unit to 0 hp is the last hit *)
(* of its resolve_combat_tick call: the next thing logged is that the     *)
(* engagement of these two units is concluded.  When unit_b is the one at *)
(* 0 hp, unit_a has the hit points it struck with, and no call leaves     *)
(* both units at 0 hp.                                                    *)
C19_DefeatedCannotRetaliate ==
    [][pc = "combat" =>
        /\ \A i \in EventIdx(events', "hit") :
              events'[i].unit_hp - events'[i].n <= 0 =>
                 /\ i < Len(events')
                 /\ events'[i + 1].ev = "concluded"
                 /\ {events'[i + 1].unit, events'[i + 1].by}
                       = {events'[i].unit, events'[i].by}
        /\ \A j \in EventIdx(events', "concluded") :
              /\ ~(events'[j].unit_hp = 0 /\ events'[j].by_hp = 0)
              /\ events'[j].unit_hp = 0 =>
                    /\ j > 1
                    /\ events'[j - 1].ev = "hit"
                    /\ events'[j - 1].unit = events'[j].unit
                    /\ events'[j - 1].by = events'[j].by
                    /\ events'[j - 1].by_hp = events'[j].by_hp
                    /\ unit'[events'[j].unit].hp = 0]_vars

(* Two Pawns with one hit point each were engaged: the first struck, the *)
(* second is at 0 hp and the first still has its hit point               *)
C19_Witness ==
    /\ pc = "fog"
    /\ \E j \in EventIdx(events, "concluded") :
          /\ events[j].unit = "P2_Pawn1" /\ events[j].by = "P1_Pawn1"
          /\ events[j].unit_hp = 0 /\ events[j].by_hp = 1
          /\ unit["P1_Pawn1"].hp = 1 /\ unit["P2_Pawn1"].hp = 0

(* C20: after every step the engagement list has no two entries with the *)
(* same two units, in either order, and each entry pairs units of        *)
(* different players; an initiate_combat call with a dead unit, with two *)
(* units of one player or with a pair on the list in either order leaves *)
(* the list as it was.                                                   *)
C20_EngagementsDistinctOpposed ==
    [][/\ \A i \in 1 .. Len(active_engagements') :
             /\ PlayerOf(active_engagements'[i][1]) # PlayerOf(active_engagements'[i][2])
             /\ \A j \in 1 .. Len(active_engagements') :
                   i # j => {active_engagements'[i][1], active_engagements'[i][2]}
                              # {active_engagements'[j][1], active_engagements'[j][2]}
       /\ \A k \in EventIdx(events', "initiate") :
             LET a == events'[k].by
                 b == events'[k].unit
             IN  (\/ ~unit[a].is_alive \/ ~unit[b].is_alive
                  \/ PlayerOf(a) = PlayerOf(b)
                  \/ \E i \in 1 .. Len(active_engagements) :
                        {active_engagements[i][1], active_engagements[i][2]} = {a, b})
                 => active_engagements' = active_engagements]_vars

(* The last call asked for a pair that is on the list the other way *)
(* round, and the list of two engagements is as it was              *)
C20_Witness ==
    /\ pc = "idle"
    /\ Len(active_engagements) = 2
    /\ \E k \in EventIdx(events, "initiate") :
          /\ \E i \in 1 .. Len(active_engagements) :
                active_engagements[i] = <<events[k].unit, events[k].by>>
          /\ \A i \in 1 .. Len(active_engagements) :
                active_engagements[i] # <<events[k].by, events[k].unit>>

(* C21: a unit whose hp reaches 0 in a step is still in the store, flagged *)
(* not alive, after that step and until the tick is over; the unit-update  *)
(* step of the next tick takes exactly the dead units out of the store.    *)
(* No step but that one changes the store, and a unit that is not alive is *)
(* returned neither by get_all_active_units nor by get_units_by_player.    *)
C21_DeadUnitRemovedNextTick ==
    [][/\ \A u \in units :
             (unit[u].hp > 0 /\ unit'[u].hp = 0) => (u \in units' /\ ~unit'[u].is_alive)
       /\ pc # "idle" => units' = units
       /\ tick_count' = tick_count => units' = units
       /\ tick_count' = tick_count + 1 => units' = {u \in units : unit[u].is_alive}
       /\ \A u \in UnitIds : ~unit'[u].is_alive =>
             /\ \A i \in 1 .. Len(get_all_active_units(unit', units')) :
                   get_all_active_units(unit', units')[i] # u
             /\ \A p \in PlayerSet :
                   \A i \in 1 .. Len(get_units_by_player(unit', units', p)) :
                      get_units_by_player(unit', units', p)[i] # u]_vars

(* A Pawn killed by combat in the first tick was in the store when that *)
(* tick ended and is out of it after the unit update of the second      *)
C21_Witness ==
    /\ tick_count = 2 /\ pc = "messengers"
    /\ \E u \in UnitIds \ units :
          /\ unit[u].hp = 0 /\ ~unit[u].is_alive
          /\ ~IsKing(u)
    /\ game_running

(* C22: a create_unit call with a type that has no archetype ends in an *)
(* error, not in a normal return, and leaves the unit store and the     *)
(* King lookup as they were.                                            *)
C22_UnknownArchetypeFailsLoudly ==
    [][\A i \in EventIdx(events', "create_unit") :
          events'[i].unit_type \notin DOMAIN UNIT_ARCHETYPES =>
             /\ events'[i].outcome = "raised"
             /\ units' = units
             /\ player_kings' = player_kings
             /\ unit' = unit]_vars

(* C23: every unit stands on the battlefield in every state, whatever *)
(* move_to order is at the head of its queue.                         *)
C23_UnitsStayOnTheBattlefield ==
    \A u \in UnitIds : is_within_bounds(unit[u].position)

(* C24: step 4 of a tick whose count is a multiple of 100 dispatches one  *)
(* report messenger for each unit that is in the store, alive and not a   *)
(* King, and no other: it is a report owned by the unit's player, it      *)
(* starts at the unit's position and goes to that player's King.  Step 4  *)
(* of any other tick dispatches nothing, no step but the messenger pass   *)
(* and step 4 dispatches at all, and the messenger pass dispatches no     *)
(* messenger of this kind.                                                *)
C24_PeriodicReports ==
    [][LET new == {i \in 1 .. Len(active_messengers') :
                      active_messengers'[i].id >= next_messenger_id}
           senders == {u \in units : unit[u].is_alive /\ ~IsKing(u)}
       IN  /\ pc \notin {"fog", "messengers"} =>
                /\ next_messenger_id' = next_messenger_id
                /\ active_messengers' = active_messengers
           /\ pc = "messengers" =>
                \A i \in new : active_messengers'[i].prefix[1] # "report_from"
           /\ (pc = "fog" /\ tick_count % 100 # 0) =>
                /\ next_messenger_id' = next_messenger_id
                /\ active_messengers' = active_messengers
           /\ (pc = "fog" /\ tick_count % 100 = 0) =>
                /\ SubSeq(active_messengers', 1, Len(active_messengers)) = active_messengers
                /\ Cardinality(new) = Cardinality(senders)
                /\ next_messenger_id' = next_messenger_id + Cardinality(senders)
                /\ \A i \in new :
                      /\ active_messengers'[i].prefix[1] = "report_from"
                      /\ active_messengers'[i].prefix[2] \in senders
                /\ \A u \in senders :
                      \E i \in new :
                         LET m == active_messengers'[i]
                         IN  /\ m.prefix = <<"report_from", u>>
                             /\ m.is_report
                             /\ m.player_id = PlayerOf(u)
                             /\ m.origin_pos = unit[u].position
                             /\ m.current_pos = unit[u].position
                             /\ m.target_entity_id = KingId(PlayerOf(u))
                             /\ \A j \in new : j # i =>
                                   active_messengers'[j].prefix # m.prefix]_vars

(* Tick 100 is over but for the end check: a Pawn killed by this tick's *)
(* combat is in the store and sent no report, the other three units     *)
(* that are not Kings sent one each                                     *)
C24_Witness ==
    /\ pc = "end" /\ tick_count = 100
    /\ next_messenger_id = 3
    /\ \E u \in units :
          /\ ~unit[u].is_alive /\ ~IsKing(u)
          /\ \A i \in 1 .. Len(active_messengers) :
                active_messengers[i].prefix # <<"report_from", u>>
    /\ \E i \in 1 .. Len(active_messengers) :
          /\ active_messengers[i].prefix = <<"report_from", "P1_Rook1">>
          /\ active_messengers[i].target_entity_id = "P1_King"
          /\ active_messengers[i].origin_pos = <<0, 7>>

(* C25: the counter of issued ids never goes down and every messenger on  *)
(* the list has a number below it, so a number once issued is never       *)
(* issued again, whatever the prefix and whether its messenger is on the  *)
(* list or not.  In every step the messengers that are new on the list    *)
(* are as many as the numbers issued, carry these numbers, and have       *)
(* health 10, no path, is_active = true and stand at their origin.  A     *)
(* dispatch made in any state, with the prefix of any messenger on the    *)
(* list, appends its messenger and leaves the others as they are; so      *)
(* does every step that only dispatches.                                  *)
C25_DispatchIssuesFreshIds ==
    [][LET old_ids == {MsgId(active_messengers[i].prefix, active_messengers[i].id) :
                          i \in 1 .. Len(active_messengers)}
           new == {i \in 1 .. Len(active_messengers') :
                      MsgId(active_messengers'[i].prefix, active_messengers'[i].id)
                         \notin old_ids}
           st == [msgs |-> active_messengers, next_id |-> next_messenger_id]
       IN  /\ next_messenger_id' >= next_messenger_id
           /\ \A i \in 1 .. Len(active_messengers) :
                 active_messengers[i].id < next_messenger_id
           /\ Cardinality(new) = next_messenger_id' - next_messenger_id
           /\ {active_messengers'[i].id : i \in new}
                 = next_messenger_id .. next_messenger_id' - 1
           /\ \A i \in new :
                 LET m == active_messengers'[i]
                 IN  /\ m.health = 10
                     /\ m.path = <<>>
                     /\ m.is_active
                     /\ m.current_pos = m.origin_pos
           /\ \A i \in 1 .. Len(active_messengers') :
                 \A j \in 1 .. Len(active_messengers') :
                    i # j => active_messengers'[i].id # active_messengers'[j].id
           /\ \A k \in 1 .. Len(active_messengers) :
                 LET d == dispatch_messenger(st, active_messengers[k].prefix, "player1",
                                             <<0, 0>>, "P1_King", ReceiptPayload("P1_Pawn1"),
                                             TRUE)
                 IN  /\ Len(d.msgs) = Len(active_messengers) + 1
                     /\ SubSeq(d.msgs, 1, Len(active_messengers)) = active_messengers
                     /\ d.msgs[Len(d.msgs)].id = next_messenger_id
                     /\ d.next_id = next_messenger_id + 1
           /\ pc # "messengers" =>
                 SubSeq(active_messengers', 1, Len(active_messengers)) = active_messengers]_vars

(* The first order of player 1 was delivered and is off the list; its     *)
(* return messenger has number 1, and a second order of player 1, with    *)
(* the prefix of the first, has number 2                                  *)
C25_Witness ==
    /\ pc = "idle"
    /\ next_messenger_id = 3
    /\ Len(active_messengers) = 2
    /\ active_messengers[1].prefix[1] = "return_msg"
    /\ active_messengers[1].player_id = "player1"
    /\ active_messengers[1].id = 1
    /\ active_messengers[2].prefix = <<"order", "player1">>
    /\ active_messengers[2].id = 2
    /\ active_messengers[2].current_pos = active_messengers[2].origin_pos

(* C26: no step of a tick raises, and the steps of a tick follow each    *)
(* other in the order units, messengers, combat, fog of war, end check:  *)
(* a tick only starts between two ticks while the game is running, each  *)
(* step hands over to the next, and the tick count moves with the unit   *)
(* step only.  This also when a messenger's target is dead or unknown,   *)
(* a member of an engagement has been removed, or a King is dead or out  *)
(* of the store.                                                         *)
C26_TickCompletes ==
    [][/\ pc' # "crashed"
       /\ pc = "idle" =>
             /\ pc' \in {"idle", "messengers"}
             /\ pc' = "messengers" <=> tick_count' = tick_count + 1
             /\ pc' = "messengers" => game_running
       /\ pc = "messengers" => pc' = "combat"
       /\ pc = "combat" => pc' = "fog"
       /\ pc = "fog" => pc' = "end"
       /\ pc = "end" => pc' = "idle"
       /\ pc # "idle" => tick_count' = tick_count /\ inputs' = inputs]_vars

(* The King of player 1 was struck down between two ticks, with an order *)
(* sent before: a tick took the King out of the store, ran to its end    *)
(* and gave the match to player 2; the King is still in the lookup, and  *)
(* the messenger is gone                                                 *)
C26_Witness ==
    /\ pc = "idle" /\ tick_count >= 1
    /\ "P1_King" \notin units
    /\ get_king_unit(player_kings, "player1") = "P1_King"
    /\ ~game_running /\ winner = "player2"
    /\ next_messenger_id = 1
    /\ active_messengers = <<>>

(* C27: Messenger.update, applied with any draw to an active messenger of *)
(* the list that has a path, moves each coordinate by at most one tile    *)
(* and never away from the destination (the end of the path), brings the  *)
(* messenger exactly one tile closer in max(|dx|, |dy|), and leaves it in *)
(* the rectangle spanned by its origin and the destination.  If the new   *)
(* position is the destination the messenger has made its delivery        *)
(* attempt and is inactive, with its health intact; if not, no delivery   *)
(* is logged for it.  In the pass itself a messenger with one tile to go  *)
(* is off the list afterwards, and one that stays on the list is active   *)
(* and one tile closer.                                                   *)
C27_StepsTowardDestination ==
    [][pc = "messengers" =>
        \A i \in 1 .. Len(active_messengers) :
            LET m == active_messengers[i]
                dest == m.path[Len(m.path)]
                st == [msgs |-> active_messengers, heap |-> unit, maps |-> player_maps,
                       next_id |-> next_messenger_id, events |-> <<>>, remove |-> {},
                       raised |-> FALSE]
            IN  (m.is_active /\ m.health > 0 /\ Len(m.path) > 1) =>
                   /\ \A sample \in Samples :
                         LET st2 == MessengerUpdate(st, i, sample, units, player_kings)
                             n == st2.msgs[i]
                             deliveries == {j \in 1 .. Len(st2.events) :
                                               /\ st2.events[j].msg = m.id
                                               /\ st2.events[j].ev \in
                                                     {"delivered_order", "delivered_report",
                                                      "delivery_failed"}}
                         IN  /\ \A c \in 1 .. 2 :
                                   /\ Abs(n.current_pos[c] - m.current_pos[c]) <= 1
                                   /\ Abs(dest[c] - n.current_pos[c])
                                         <= Abs(dest[c] - m.current_pos[c])
                                   /\ Min(m.origin_pos[c], dest[c]) <= n.current_pos[c]
                                   /\ n.current_pos[c] <= Max(m.origin_pos[c], dest[c])
                             /\ Chebyshev(n.current_pos, dest)
                                   = Chebyshev(m.current_pos, dest) - 1
                             /\ n.current_pos = dest =>
                                   /\ ~n.is_active
                                   /\ n.health = m.health
                                   /\ Cardinality(deliveries) = 1
                             /\ n.current_pos # dest => deliveries = {}
                   /\ Chebyshev(m.current_pos, dest) = 1 =>
                         MessengerIdx(active_messengers', m.id) = {}
                   /\ \A k \in MessengerIdx(active_messengers', m.id) :
                         /\ active_messengers'[k].is_active
                         /\ active_messengers'[k].path = m.path
                         /\ Chebyshev(active_messengers'[k].current_pos, dest)
                               = Chebyshev(m.current_pos, dest) - 1]_vars

(* A return messenger from (0,1) to (2,2) has made the first of its two *)
(* steps and stands at (1,2): its y has arrived, its x has not          *)
C27_Witness ==
    /\ pc = "combat"
    /\ \E i \in 1 .. Len(active_messengers) :
          LET m == active_messengers[i]
          IN  /\ m.is_active
              /\ m.path = <<<<0, 1>>, <<2, 2>>>>
              /\ m.current_pos = <<1, 2>>

(* What the loop body of the messenger pass does to the messenger at   *)
(* index i of the list, for a given value of the draw                  *)
LoopBody(i, sample) ==
    UpdateOneMessenger([msgs |-> active_messengers, heap |-> unit, maps |-> player_maps,
                        next_id |-> next_messenger_id, events |-> <<>>, remove |-> {},
                        raised |-> FALSE],
                       i, sample, units, player_kings)

EventsOf(evs, id, names) ==
    {j \in 1 .. Len(evs) : evs[j].msg = id /\ evs[j].ev \in names}

(* C28 as stated: whenever the loop body moves a messenger, exactly one *)
(* draw is made for it, and it is intercepted exactly if the draw is    *)
(* below the risk at its new position; an intercepted messenger makes   *)
(* no delivery.                                                         *)
C28_OneDrawPerMove ==
    [][pc = "messengers" =>
        \A i \in 1 .. Len(active_messengers), sample \in Samples :
            LET m == active_messengers[i]
                st2 == LoopBody(i, sample)
                n == st2.msgs[i]
            IN  n.current_pos # m.current_pos =>
                   /\ Cardinality(EventsOf(st2.events, m.id, {"draw"})) = 1
                   /\ EventsOf(st2.events, m.id, {"intercepted"}) # {}
                         <=> SampleBelowRisk(sample, m.origin_pos, n.current_pos)
                   /\ EventsOf(st2.events, m.id, {"intercepted"}) # {} =>
                         EventsOf(st2.events, m.id,
                                  {"delivered_order", "delivered_report"}) = {}]_vars

(* C28, amended: whenever the loop body moves a messenger to a tile that *)
(* is not its destination, exactly one draw is made for it, after the    *)
(* move, and the messenger is intercepted exactly if the draw is below   *)
(* the risk at its new position; an intercepted messenger is inactive    *)
(* and makes no delivery.  A messenger moved onto its destination, and   *)
(* one that is not moved, gets no draw and is not intercepted.  In the   *)
(* pass itself no messenger has more than one draw, and none has an      *)
(* interception and a delivery.                                          *)
C28_OneDrawUnlessArrived ==
    [][pc = "messengers" =>
        /\ \A i \in 1 .. Len(active_messengers), sample \in Samples :
              LET m == active_messengers[i]
                  st2 == LoopBody(i, sample)
                  n == st2.msgs[i]
                  draws == EventsOf(st2.events, m.id, {"draw"})
                  intercepted == EventsOf(st2.events, m.id, {"intercepted"}) # {}
                  delivered == EventsOf(st2.events, m.id,
                                        {"delivered_order", "delivered_report"}) # {}
              IN  IF n.current_pos # m.current_pos /\ n.current_pos # n.path[Len(n.path)]
                  THEN /\ Cardinality(draws) = 1
                       /\ \A j \in draws : st2.events[j].n = sample
                       /\ intercepted <=> SampleBelowRisk(sample, m.origin_pos, n.current_pos)
                       /\ intercepted => (~n.is_active /\ n.health = 0)
                       /\ ~delivered
                  ELSE /\ draws = {}
                       /\ ~intercepted
        /\ \A i \in 1 .. Len(active_messengers) :
              LET id == active_messengers[i].id
              IN  /\ Cardinality(EventsOf(events', id, {"draw"})) <= 1
                  /\ EventsOf(events', id, {"intercepted"}) # {} =>
                        /\ EventsOf(events', id, {"draw"}) # {}
                        /\ EventsOf(events', id, {"delivered_order", "delivered_report",
                                                  "delivery_failed"}) = {}]_vars

(* In one pass an order moved onto its destination and was delivered  *)
(* without a draw, and another moved one tile, had its draw and is on *)
(* its way                                                            *)
C28_Witness ==
    /\ pc = "combat"
    /\ \E j \in EventIdx(events, "delivered_order") :
          EventsOf(events, events[j].msg, {"draw"}) = {}
    /\ \E j \in EventIdx(events, "draw") :
          \E k \in MessengerIdx(active_messengers, events[j].msg) :
             /\ active_messengers[k].is_active
             /\ Chebyshev(active_messengers[k].current_pos,
                          active_messengers[k].origin_pos) = 1

(* C29: the risk of a draw is a non-decreasing function of the distance *)
(* between the messenger's origin and its position after the move, and  *)
(* of nothing else (two calls at the same distance give the same risk,  *)
(* whatever the path and the distance left); it is 0 at distance 0 and  *)
(* never above 0.95.                                                    *)
C29_RiskFromDistanceTravelled ==
    \A i \in 1 .. Len(events), j \in 1 .. Len(events) :
        LET a == events[i]
            b == events[j]
            da == SquaredDistance(a.origin_pos, a.current_pos)
            db == SquaredDistance(b.origin_pos, b.current_pos)
        IN  /\ a.risk \in 0 .. RISK_CAP
            /\ da = 0 => a.risk = 0
            /\ da <= db => a.risk <= b.risk
            /\ da = db => a.risk = b.risk

(* Two messengers five tiles from their origins, on different tiles and *)
(* bound for different destinations, got a risk of 0.025; or one two    *)
(* hundred tiles out got the cap and one at its origin zero             *)
C29_Witness ==
    /\ Len(events) = 2
    /\ events[1].ev = "risk" /\ events[2].ev = "risk"
    /\ \/ /\ events[1].risk = RISK_CAP
          /\ events[2].risk = 0
          /\ events[2].origin_pos = events[2].current_pos
       \/ /\ events[1].risk = 250 /\ events[2].risk = 250
          /\ events[1].current_pos # events[2].current_pos
          /\ events[1].path # events[2].path

(* C30: a messenger that a pass leaves inactive at the final waypoint of *)
(* its path, without having been intercepted, and whose target was in    *)
(* the store and alive, has delivered its payload in that pass; so has   *)
(* one whose origin is the place of its target when its path is computed *)
C30_AtFinalWaypointDelivers ==
    [][pc = "messengers" =>
        \A i \in 1 .. Len(active_messengers) :
            LET m == active_messengers[i]
            IN  (m.is_active /\ m.health > 0 /\ DeliveryTargetOk(unit, units, m)) =>
                   \A k \in MessengerIdx(active_messengers', m.id) :
                      LET n == active_messengers'[k]
                      IN  (/\ ~n.is_active /\ n.health > 0
                           /\ n.path # <<>>
                           /\ n.current_pos = n.path[Len(n.path)])
                          => EventsOf(events', m.id,
                                      {"delivered_order", "delivered_report"}) # {}]_vars

(* The payloads of the orders a pass delivered to unit u, in the order of *)
(* the deliveries; msgs is the messenger list before the pass             *)
DeliveredOrders(evs, msgs, u) ==
    LET ds == SelectSeq(evs, LAMBDA e : e.ev = "delivered_order" /\ e.unit = u)
    IN  [k \in 1 .. Len(ds) |->
            msgs[CHOOSE i \in 1 .. Len(msgs) : msgs[i].id = ds[k].msg].payload_data]

(* C31: after a messenger pass the order queue of every unit is the queue *)
(* it had before the pass followed by the payloads of the orders the pass *)
(* delivered to it, in delivery order: each delivery appends at the tail  *)
(* and touches nothing else in the queue.                                 *)
C31_OrdersAppendedInDeliveryOrder ==
    [][pc = "messengers" =>
        \A u \in UnitIds :
            unit'[u].current_orders =
               unit[u].current_orders \o DeliveredOrders(events', active_messengers, u)]_vars

(* A pass delivered an order to a unit that already had one queued, or *)
(* two orders to one unit                                              *)
C31_Witness ==
    /\ pc = "combat"
    /\ \E u \in units :
          /\ unit[u].is_alive
          /\ \E j \in EventIdx(events, "delivered_order") : events[j].unit = u
          /\ Len(unit[u].current_orders) >= 2
          /\ unit[u].current_orders[1] # unit[u].current_orders[2]

(* C32: a call reveal_area(player, center, radius) for a player with a   *)
(* grid leaves a tile visible exactly if it was visible or it is on the  *)
(* board with (x - cx)^2 + (y - cy)^2 <= radius^2, wherever the center   *)
(* is; no other grid changes, and for a player without a grid nothing    *)
(* changes.                                                              *)
C32_RevealsTheDisc ==
    [][(Len(events') = Len(events) + 1 /\ events'[Len(events')].ev = "reveal_area") =>
        LET call == events'[Len(events')]
            disc == {t \in Tiles :
                        (CellX(t) - call.center[1]) * (CellX(t) - call.center[1])
                      + (CellY(t) - call.center[2]) * (CellY(t) - call.center[2])
                           <= call.radius * call.radius}
        IN  IF call.player \in DOMAIN player_maps
            THEN /\ DOMAIN player_maps' = DOMAIN player_maps
                 /\ player_maps'[call.player] = player_maps[call.player] \cup disc
                 /\ \A q \in DOMAIN player_maps :
                       q # call.player => player_maps'[q] = player_maps[q]
            ELSE player_maps' = player_maps]_vars

(* A grid with only (5,5) visible after a reveal of radius 0, then a    *)
(* reveal of radius 2 around (-1,3), off the board: the four tiles of   *)
(* the board within distance 2 of it are added                          *)
C32_Witness ==
    /\ Len(events) = 3
    /\ events[1].ev = "initialize_player_map"
    /\ events[2] = [ev |-> "reveal_area", player |-> events[1].player,
                    center |-> <<5, 5>>, radius |-> 0]
    /\ events[3] = [ev |-> "reveal_area", player |-> events[1].player,
                    center |-> <<-1, 3>>, radius |-> 2]
    /\ player_maps[events[1].player] =
          {Cell(5, 5), Cell(0, 2), Cell(0, 3), Cell(0, 4), Cell(1, 3)}

(* The tiles of the board within Euclidean distance r of pos *)
TilesInSight(pos, r) ==
    {t \in Tiles : (CellX(t) - pos[1]) * (CellX(t) - pos[1])
                 + (CellY(t) - pos[2]) * (CellY(t) - pos[2]) <= r * r}

(* C33: when a tick has completed (the end-of-game check is reached or  *)
(* done), every tile of the board within sight_range of a living unit   *)
(* with a positive sight range is visible in the grid of the unit's     *)
(* player.                                                              *)
C33_LivingUnitsSeeTheirSurroundings ==
    (pc \in {"end", "idle"} /\ tick_count >= 1) =>
        \A u \in UnitIds :
            (unit[u].is_alive /\ Stat(u).sight_range > 0) =>
                TilesInSight(unit[u].position, Stat(u).sight_range)
                    \subseteq player_maps[PlayerOf(u)]

(* A tick is over, a living unit has moved, and a tile it could not see *)
(* from where it started is within its sight                            *)
C33_Witness ==
    /\ pc = "idle" /\ tick_count >= 1
    /\ \E u \in units :
          /\ unit[u].is_alive
          /\ unit[u].position # UnitDef[u].position
          /\ TilesInSight(unit[u].position, Stat(u).sight_range)
                \ TilesInSight(UnitDef[u].position, Stat(u).sight_range) # {}

(* C34: when update_units takes a defeated King out of the unit store, *)
(* get_king_unit returns None for its player afterwards.               *)
C34_RemovedKingLeavesLookup ==
    [][(pc = "idle" /\ pc' = "messengers") =>
        \A p \in DOMAIN player_kings :
            (IsKing(player_kings[p]) /\ player_kings[p] \in units \ units')
                => get_king_unit(player_kings', p) = "None"]_vars

(* C35: in phase Game_Over a player is declared winner, that player's   *)
(* King is alive and the other player's King is dead, also when both    *)
(* Kings were brought to 0 hp by the engagements of one tick.           *)
C35_WinnerHasLivingKing ==
    current_phase = "Game_Over" =>
        /\ winner \in PlayerSet
        /\ unit[KingId(winner)].is_alive
        /\ ~unit[KingId(Opponent(winner))].is_alive

(* C36: a call of game_loop_tick while the game is not running changes   *)
(* nothing (tick counter, units and their queues, unit store, King       *)
(* lookup, messengers, engagements, grids, phase), and no step of a tick *)
(* starts then; while the game is running a call raises the tick counter *)
(* by exactly 1, in its first step, and no other step moves it.          *)
C36_StoppedTickChangesNothing ==
    [][/\ (events' # <<>> /\ events'[1].ev = "tick_returned") =>
             /\ ~game_running
             /\ UNCHANGED <<tick_count, unit, units, player_kings, active_messengers,
                            next_messenger_id, active_engagements, player_maps,
                            current_phase, game_running, winner, pc>>
       /\ (pc = "idle" /\ ~game_running) => (pc' = "idle" /\ tick_count' = tick_count)
       /\ (pc = "idle" /\ pc' # "idle") =>
             (game_running /\ pc' = "messengers" /\ tick_count' = tick_count + 1)
       /\ pc # "idle" => tick_count' = tick_count]_vars

(* The match is over with a messenger still on the list, and a tick *)
(* called then has returned at once                                 *)
C36_Witness ==
    /\ events # <<>> /\ events[1].ev = "tick_returned"
    /\ current_phase = "Game_Over" /\ ~game_running
    /\ tick_count >= 1
    /\ \E i \in 1 .. Len(active_messengers) : active_messengers[i].is_active

(* C37: whatever step is taken, a messenger of the list that is inactive *)
(* is still inactive and where it was if it is still on the list, and    *)
(* delivers nothing; the loop body of the messenger pass leaves it, the  *)
(* units and the grids as they are, for any draw.  A pass logs at most   *)
(* one delivery per messenger, and a messenger that has delivered is     *)
(* inactive afterwards: so a messenger applies its payload at most once. *)
C37_InactiveIsFinal ==
    [][\A i \in 1 .. Len(active_messengers) :
          LET m == active_messengers[i]
              after == MessengerIdx(active_messengers', m.id)
              deliveries == IF pc = "messengers"
                            THEN EventsOf(events', m.id,
                                          {"delivered_order", "delivered_report"})
                            ELSE {}
          IN  /\ Cardinality(after) <= 1
              /\ Cardinality(deliveries) <= 1
              /\ deliveries # {} =>
                    \A k \in after : ~active_messengers'[k].is_active
              /\ ~m.is_active =>
                    /\ \A k \in after :
                          /\ ~active_messengers'[k].is_active
                          /\ active_messengers'[k].current_pos = m.current_pos
                    /\ deliveries = {}
                    /\ pc = "messengers" =>
                          \A sample \in Samples :
                             LET st2 == LoopBody(i, sample)
                             IN  /\ st2.msgs = active_messengers
                                 /\ st2.heap = unit
                                 /\ st2.maps = player_maps
                                 /\ st2.events = <<>>]_vars

(* A messenger that an earlier pass left inactive with its path set is   *)
(* on the list when the next pass begins: it went through the steps of   *)
(* two ticks as it was                                                   *)
C37_Witness ==
    /\ pc = "messengers" /\ tick_count >= 2
    /\ \E i \in 1 .. Len(active_messengers) :
          /\ ~active_messengers[i].is_active
          /\ active_messengers[i].path # <<>>

(* The number of messenger passes, the coming one included, after which *)
(* messenger m is off the list at the latest: one for an inactive       *)
(* messenger, the tiles left for one on its way, and for one without a  *)
(* path the distance to its target if it can set out for it, else two.  *)
PassesLeft(m, heap, store) ==
    IF ~m.is_active THEN 1
    ELSE IF m.path # <<>>
         THEN Max(1, Chebyshev(m.current_pos, m.path[Len(m.path)]))
    ELSE IF /\ m.target_entity_id \in store
            /\ heap[m.target_entity_id].is_alive
            /\ is_within_bounds(heap[m.target_entity_id].position)
            /\ heap[m.target_entity_id].position # m.origin_pos
         THEN Chebyshev(m.origin_pos, heap[m.target_entity_id].position)
         ELSE 2

(* Distance from the origin to the destination, 0 while there is none *)
JourneyLength(m) ==
    IF m.path = <<>> THEN 0 ELSE Chebyshev(m.origin_pos, m.path[Len(m.path)])

(* C38: every messenger pass takes each messenger of the list off it or  *)
(* brings it one pass closer to its removal, whatever happens to it      *)
(* (moved, delivered, delivery failed, intercepted, target gone or off   *)
(* the board); at its first pass a messenger is at most max(d, 2) passes *)
(* from removal, d the distance from its origin to its destination, and  *)
(* no other step changes a messenger of the list.  So an order or report *)
(* dispatched before the first tick is off the list when tick d + 2 has  *)
(* made its pass.                                                        *)
C38_RemovedWithinJourney ==
    [][/\ pc = "messengers" =>
             \A i \in 1 .. Len(active_messengers) :
                LET m == active_messengers[i]
                IN  \A k \in MessengerIdx(active_messengers', m.id) :
                       PassesLeft(active_messengers'[k], unit', units')
                          <= PassesLeft(m, unit, units) - 1
       /\ pc # "messengers" =>
             \A i \in 1 .. Len(active_messengers) :
                /\ i <= Len(active_messengers')
                /\ active_messengers'[i] = active_messengers[i]
       /\ \A i \in 1 .. Len(active_messengers') :
             LET n == active_messengers'[i]
             IN  n.prefix[1] \in {"order", "report"} =>
                    \/ tick_count' < JourneyLength(n) + 2
                    \/ tick_count' = JourneyLength(n) + 2 /\ pc' = "messengers"]_vars

(* The order player 2 sent across the board before the first tick was *)
(* delivered by the pass of tick 7 and is off the list                 *)
C38_Witness ==
    /\ pc = "combat" /\ tick_count = 7
    /\ \E j \in EventIdx(events, "delivered_order") :
          /\ events[j].unit = "P1_Pawn1"
          /\ MessengerIdx(active_messengers, events[j].msg) = {}

(* C39: in a messenger pass, a messenger without a path whose target is  *)
(* found on the battlefield gets the path from its origin to the place   *)
(* the target is at in this pass, and a messenger with a path keeps it   *)
(* whatever its target has done since.  A messenger one tile from the    *)
(* end of its path whose target is in the store and alive delivers to    *)
(* that unit, wherever the unit is: an order is in the unit's queue      *)
(* afterwards, behind what was queued, and the tiles of a report are     *)
(* visible in the grid of the messenger's player.                        *)
C39_DestinationFixedAtFirstUpdate ==
    [][pc = "messengers" =>
        \A i \in 1 .. Len(active_messengers) :
            LET m == active_messengers[i]
                t == m.target_entity_id
                after == MessengerIdx(active_messengers', m.id)
            IN  m.is_active /\ m.health > 0 =>
                  /\ m.path # <<>> =>
                        \A k \in after : active_messengers'[k].path = m.path
                  /\ (/\ m.path = <<>>
                      /\ t \in units /\ unit[t].is_alive
                      /\ is_within_bounds(unit[t].position)) =>
                        \A k \in after :
                           active_messengers'[k].path = <<m.origin_pos, unit[t].position>>
                  /\ (/\ m.path # <<>>
                      /\ Chebyshev(m.current_pos, m.path[Len(m.path)]) = 1
                      /\ t \in units /\ unit[t].is_alive) =>
                        /\ after = {}
                        /\ \E j \in EventsOf(events', m.id,
                                             {"delivered_order", "delivered_report"}) :
                              events'[j].unit = t
                        /\ IF m.is_report
                           THEN m.player_id \in DOMAIN player_maps =>
                                   ReportTiles(m.payload_data.visibility_update)
                                      \subseteq player_maps'[m.player_id]
                           ELSE \E q \in Len(unit[t].current_orders) + 1
                                            .. Len(unit'[t].current_orders) :
                                   unit'[t].current_orders[q] = m.payload_data]_vars

(* The order player 2 sent to P1_Pawn1 when it stood at (0,1) arrived   *)
(* there in tick 7; the Pawn had walked off to (0,-1) meanwhile and has *)
(* the order in its queue                                               *)
C39_Witness ==
    /\ pc = "combat" /\ tick_count = 7
    /\ \E j \in EventIdx(events, "delivered_order") : events[j].unit = "P1_Pawn1"
    /\ unit["P1_Pawn1"].position = <<0, -1>>
    /\ unit["P1_Pawn1"].current_orders = <<AttackUnit("P2_Pawn1")>>

Sign(n) == IF n > 0 THEN 1 ELSE IF n < 0 THEN -1 ELSE 0

IsPrefix(q, r) == Len(q) <= Len(r) /\ \A k \in 1 .. Len(q) : r[k] = q[k]

(* C40: the unit step of a tick does this to a living unit of the store: *)
(* with a move_to order at the head of its queue whose target_pos is     *)
(* given and not reached, each coordinate moves one tile toward          *)
(* target_pos and the order is removed exactly if the unit is there      *)
(* now; with target_pos missing or already reached the order is removed  *)
(* and the unit stays; with any other order at the head, or none, the    *)
(* queue and the position stay as they are.  Nothing but the head is     *)
(* ever removed, no other step moves a unit or shortens a queue, and as  *)
(* long as an order that is not a move_to is at the head, every step     *)
(* leaves the unit where it is with its queue intact (only growing).     *)
C40_OnlyTheHeadMoveToIsExecuted ==
    [][\A u \in units :
          LET q == unit[u].current_orders
              pos == unit[u].position
              q2 == unit'[u].current_orders
              pos2 == unit'[u].position
          IN  /\ (pc = "idle" /\ pc' = "messengers" /\ unit[u].is_alive) =>
                    IF q = <<>> \/ q[1].type # "move_to"
                    THEN q2 = q /\ pos2 = pos
                    ELSE IF q[1].target_pos = <<>> \/ q[1].target_pos = pos
                    THEN q2 = Tail(q) /\ pos2 = pos
                    ELSE /\ pos2 = <<pos[1] + Sign(q[1].target_pos[1] - pos[1]),
                                     pos[2] + Sign(q[1].target_pos[2] - pos[2])>>
                         /\ q2 = IF pos2 = q[1].target_pos THEN Tail(q) ELSE q
              /\ ~(pc = "idle" /\ pc' = "messengers") => (pos2 = pos /\ IsPrefix(q, q2))
              /\ (q # <<>> /\ q[1].type # "move_to") => (pos2 = pos /\ IsPrefix(q, q2))
              /\ ~unit[u].is_alive => (pos2 = pos /\ q2 = q)]_vars

(* After two ticks and three orders the Pawn stands where it started: a *)
(* move_to without target_pos was taken off its queue, and the attack   *)
(* order at the head keeps the move_to behind it from being executed    *)
C40_Witness ==
    /\ pc = "idle" /\ tick_count >= 2 /\ inputs = 3
    /\ unit["P1_Pawn1"].is_alive
    /\ unit["P1_Pawn1"].position = UnitDef["P1_Pawn1"].position
    /\ unit["P1_Pawn1"].current_orders = <<AttackUnit("P2_Pawn1"), MoveTo(<<2, 3>>)>>

====
